---- MODULE Spec2Model ----
(***************************************************************************)
(* Model of the scoring engine of EzValuation:                             *)
(*   - utils/valuation.py  evaluate_criterion_value (range evaluator)      *)
(*   - pages/analysis_wizard.py  new_analysis_tab (score aggregation),     *)
(*     render_criterion_input, classify_score                              *)
(*   - utils/db.py  get_ranges_by_criterion / get_full_methodology_tree    *)
(*   - utils/valuation.py  gordon_growth_model, fcfe_valuation,            *)
(*     ipca_plus_valuation, calculate_cap_rate, calculate_p_vp,            *)
(*     get_market_index_value (valuation formulas)                         *)
(*   - utils/db.py  create_methodology, set_active_methodology,            *)
(*     get_active_methodology (methodology store)                          *)
(*   - app.py, utils/auth.py  login, logout, is_admin, require_admin and   *)
(*     the navigation of the main app (session)                            *)
(*   - pages/admin_indices.py  the callbacks and the page of the market    *)
(*     indices; pages/admin_methodology.py  main                           *)
(*                                                                         *)
(* Python values are tagged records.  Python floats are modelled as exact  *)
(* rationals n/d (d > 0) extended with +inf, -inf and nan; floating-point  *)
(* rounding is not modelled.  Python strings are sequences of characters,   *)
(* one TLA+ string per character, so that str.lower() and float(str) are   *)
(* computed, not assumed; the characters a-tilde and A-tilde of 'Nao' are  *)
(* written "~a" and "~A".                                                  *)
(***************************************************************************)
EXTENDS Integers, Sequences, FiniteSets, TLC

VARIABLES
    ev_value,      \* evaluator: the `value` argument
    ev_ranges,     \* evaluator: the `ranges` argument (list of dicts)
    ev_result,     \* evaluator: index of the returned dict in ranges, 0 for None
    ev_pc,         \* evaluator: "ready" before the call, "done" after it
    wz_db,         \* wizard: the stored methodology (pillars, criteria, range rows)
    ticker_widget, \* wizard: text of the ticker input
    w_input,       \* wizard: widget state of the criterion inputs, id -> value
    w_manual,      \* wizard: widget state of the manual select boxes, id -> label
    analysis_inputs,    \* st.session_state.analysis_inputs, key -> value
    analysis_overrides, \* st.session_state.analysis_overrides: ids mapped to True
    wz_view,       \* wizard: what the last run computed and rendered
    analysis_data, \* the analysis_data table: the records inserted
    cl_score,      \* classifier: the `score` argument
    cl_label,      \* classifier: the label returned, "" before the call
    cl_pc,         \* classifier: "ready" before the call, "done" after it
    va_fn,         \* valuation: the function called
    va_args,       \* valuation: its arguments
    va_result,     \* valuation: what the call returned or raised
    va_pc,         \* valuation: "ready" before the call, "done" after it
    methodology_config, \* the methodology_config table, rows in creation order
    me_admin,      \* methodology store: the position of each admin session
    me_active,     \* methodology store: what get_active_methodology returned last
    me_last,       \* methodology store: the operation that acted last
    session_state, \* st.session_state of one browser session, key -> value
    market_index_rows, \* the market_indices table
    ix_seq,        \* the number of rows the market_indices table has been given
    ap_view,       \* app: the script that ran last and what it rendered
    ap_last        \* app: the event that acted last and what it did

ev_vars == <<ev_value, ev_ranges, ev_result, ev_pc>>
wz_vars == <<wz_db, ticker_widget, w_input, w_manual, analysis_inputs,
             analysis_overrides, wz_view, analysis_data>>
cl_vars == <<cl_score, cl_label, cl_pc>>
va_vars == <<va_fn, va_args, va_result, va_pc>>
me_vars == <<methodology_config, me_admin, me_active, me_last>>
ap_vars == <<session_state, market_index_rows, ix_seq, ap_view, ap_last>>
vars == <<ev_vars, wz_vars, cl_vars, va_vars, me_vars, ap_vars>>

-----------------------------------------------------------------------------
(* Python floats *)

Fin(n, d) == [k |-> "fin", n |-> n, d |-> d]
PInf == [k |-> "pinf", n |-> 0, d |-> 1]
NInf == [k |-> "ninf", n |-> 0, d |-> 1]
NaN == [k |-> "nan", n |-> 0, d |-> 1]

\* a <= b on Python floats (every comparison with nan is False)
FLe(a, b) ==
    IF a.k = "nan" \/ b.k = "nan" THEN FALSE
    ELSE IF a.k = "ninf" \/ b.k = "pinf" THEN TRUE
    ELSE IF a.k = "pinf" \/ b.k = "ninf" THEN FALSE
    ELSE a.n * b.d <= b.n * a.d

\* a < b on Python floats
FLt(a, b) ==
    IF a.k = "nan" \/ b.k = "nan" THEN FALSE
    ELSE IF a.k = "pinf" \/ b.k = "ninf" THEN FALSE
    ELSE IF a.k = "ninf" \/ b.k = "pinf" THEN TRUE
    ELSE a.n * b.d < b.n * a.d

-----------------------------------------------------------------------------
(* Python strings: str.lower(), str.strip(), float(str) *)

UpperChars == <<"A", "B", "C", "D", "E", "F", "G", "H", "I", "J", "K", "L", "M",
                "N", "O", "P", "Q", "R", "S", "T", "U", "V", "W", "X", "Y", "Z",
                "~A">>
LowerChars == <<"a", "b", "c", "d", "e", "f", "g", "h", "i", "j", "k", "l", "m",
                "n", "o", "p", "q", "r", "s", "t", "u", "v", "w", "x", "y", "z",
                "~a">>

LowerChar(c) ==
    IF \E i \in DOMAIN UpperChars : UpperChars[i] = c
    THEN LowerChars[CHOOSE i \in DOMAIN UpperChars : UpperChars[i] = c]
    ELSE c

\* str.lower()
Lower(s) == [i \in DOMAIN s |-> LowerChar(s[i])]

UpperChar(c) ==
    IF \E i \in DOMAIN LowerChars : LowerChars[i] = c
    THEN UpperChars[CHOOSE i \in DOMAIN LowerChars : LowerChars[i] = c]
    ELSE c

\* str.upper()
Upper(s) == [i \in DOMAIN s |-> UpperChar(s[i])]

DigitChars == <<"0", "1", "2", "3", "4", "5", "6", "7", "8", "9">>
IsDigit(c) == \E i \in DOMAIN DigitChars : DigitChars[i] = c
DigitVal(c) == (CHOOSE i \in DOMAIN DigitChars : DigitChars[i] = c) - 1
IsSpace(c) == c \in {" ", "\t", "\n"}

RECURSIVE LStrip(_)
LStrip(s) == IF s # <<>> /\ IsSpace(Head(s)) THEN LStrip(Tail(s)) ELSE s

RECURSIVE RStrip(_)
RStrip(s) ==
    IF s # <<>> /\ IsSpace(s[Len(s)]) THEN RStrip(SubSeq(s, 1, Len(s) - 1)) ELSE s

\* str.strip()
Strip(s) == RStrip(LStrip(s))

RECURSIVE Pow10(_)
Pow10(e) == IF e = 0 THEN 1 ELSE 10 * Pow10(e - 1)

AllDigits(s) == \A i \in DOMAIN s : IsDigit(s[i])

\* the natural number written by a string of digits (0 for the empty string)
RECURSIVE DigitsVal(_)
DigitsVal(s) ==
    IF s = <<>> THEN 0
    ELSE 10 * DigitsVal(SubSeq(s, 1, Len(s) - 1)) + DigitVal(s[Len(s)])

\* index of the first occurrence of a character of cs in s, 0 when there is none
FirstOf(s, cs) ==
    IF \E i \in DOMAIN s : s[i] \in cs
    THEN CHOOSE i \in DOMAIN s : s[i] \in cs /\ \A j \in 1..(i - 1) : s[j] \notin cs
    ELSE 0

ValueError == [k |-> "ValueError", n |-> 0, d |-> 1]

\* the part of s before position pos (all of s when pos = 0) and the part
\* after it (empty when pos = 0)
Before(s, pos) == IF pos = 0 THEN s ELSE SubSeq(s, 1, pos - 1)
After(s, pos) == IF pos = 0 THEN <<>> ELSE SubSeq(s, pos + 1, Len(s))

\* a leading sign and what follows it
IsNeg(s) == s # <<>> /\ Head(s) = "-"
Unsigned(s) == IF s # <<>> /\ Head(s) \in {"+", "-"} THEN Tail(s) ELSE s

\* the value of  ip [ "." fp ] [ (e|E) [sign] e_dig ]
DecimalValue(ip, fp, has_exp, e_neg, e_dig) ==
    IF ~(AllDigits(ip) /\ AllDigits(fp) /\ Len(ip) + Len(fp) > 0) THEN ValueError
    ELSE IF has_exp /\ (e_dig = <<>> \/ ~AllDigits(e_dig)) THEN ValueError
    ELSE IF e_neg THEN Fin(DigitsVal(ip \o fp), Pow10(Len(fp)) * Pow10(DigitsVal(e_dig)))
    ELSE Fin(DigitsVal(ip \o fp) * Pow10(DigitsVal(e_dig)), Pow10(Len(fp)))

\* mantissa split at its dot (position dot)
SplitMantissa(mant, dot, has_exp, expo) ==
    DecimalValue(Before(mant, dot), After(mant, dot), has_exp, IsNeg(expo), Unsigned(expo))

\* literal split at its exponent mark (position e_pos)
SplitExponent(s, e_pos) ==
    SplitMantissa(Before(s, e_pos), FirstOf(Before(s, e_pos), {"."}),
                  e_pos # 0, After(s, e_pos))

\* the unsigned decimal literal  digits [ "." digits ] [ (e|E) [sign] digits ]
ParseDecimal(s) == SplitExponent(s, FirstOf(s, {"e", "E"}))

\* the float written by a sign, the lower-cased body and the body's decimal value
SignedFloat(neg, low, dec) ==
    IF low \in {<<"i", "n", "f">>, <<"i", "n", "f", "i", "n", "i", "t", "y">>}
    THEN (IF neg THEN NInf ELSE PInf)
    ELSE IF low = <<"n", "a", "n">> THEN NaN
    ELSE IF dec.k = "ValueError" THEN ValueError
    ELSE IF neg THEN Fin(0 - dec.n, dec.d) ELSE dec

ParseStripped(t) == SignedFloat(IsNeg(t), Lower(Unsigned(t)), ParseDecimal(Unsigned(t)))

\* float(str): strip, optional sign, inf / infinity / nan, or a decimal literal
\* (digit-group underscores are not in the modelled alphabet)
ParseFloat(s) == ParseStripped(Strip(s))

-----------------------------------------------------------------------------
(* Sequences, dicts and exact arithmetic *)

\* the lists holding the elements of rs in some order
Reorderings(rs) ==
    {[i \in DOMAIN rs |-> rs[f[i]]] :
        f \in {g \in [DOMAIN rs -> DOMAIN rs] :
                 \A a, b \in DOMAIN rs : a # b => g[a] # g[b]}}

\* the lists that take their i-th element from the set S[i]
SeqChoices(S) ==
    {f \in [DOMAIN S -> UNION {S[i] : i \in DOMAIN S}] :
        \A i \in DOMAIN S : f[i] \in S[i]}

\* d[k] = v on a dict
Put(d, k, v) == [x \in DOMAIN d \cup {k} |-> IF x = k THEN v ELSE d[x]]

\* d.get(k, default)
Get(d, k, default) == IF k \in DOMAIN d THEN d[k] ELSE default

EmptyDict == [x \in {} |-> 0]

RECURSIVE Sum(_)
Sum(xs) == IF xs = <<>> THEN 0 ELSE Head(xs) + Sum(Tail(xs))

RECURSIVE GCD(_, _)
GCD(a, b) == IF b = 0 THEN a ELSE GCD(b, a % b)

Abs(x) == IF x < 0 THEN 0 - x ELSE x

\* the rational n/d (d > 0) in lowest terms
Rat(n, d) == LET g == GCD(Abs(n), d) IN [n |-> n \div g, d |-> d \div g]

RAdd(a, b) == Rat(a.n * b.d + b.n * a.d, a.d * b.d)
RMul(a, w) == Rat(a.n * w, a.d)
RDiv(a, w) == Rat(a.n, a.d * w)
REq(a, b) == a.n * b.d = b.n * a.d
RLe(a, b) == a.n * b.d <= b.n * a.d

\* a name that was never assigned
Unassigned == [n |-> 0, d |-> 0]

-----------------------------------------------------------------------------
(* Python values handed to the evaluator, and the dicts of a range list *)

VBool(b) == [t |-> "bool", b |-> b, f |-> NaN, s |-> <<>>]
VNum(f) == [t |-> "num", b |-> FALSE, f |-> f, s |-> <<>>]
VStr(s) == [t |-> "str", b |-> FALSE, f |-> NaN, s |-> s]
VNone == [t |-> "none", b |-> FALSE, f |-> NaN, s |-> <<>>]

\* a dict entry: key absent, None, a string, or a number
FMissing == [k |-> "missing", s |-> <<>>, f |-> NaN]
FNone == [k |-> "none", s |-> <<>>, f |-> NaN]
FStr(s) == [k |-> "str", s |-> s, f |-> NaN]
FNum(n) == [k |-> "num", s |-> <<>>, f |-> Fin(n, 1)]

Range(mn, mx, lb, pts) == [min |-> mn, max |-> mx, label |-> lb, points |-> pts]

\* str(value) for the values of the else branch
Str(value) ==
    IF value.t = "none" THEN <<"N", "o", "n", "e">> ELSE value.s

Sim == <<"S", "i", "m">>
Nao == <<"N", "~a", "o">>
NullStr == <<"n", "u", "l", "l">>

-----------------------------------------------------------------------------
(* utils/valuation.py: evaluate_criterion_value *)

Raised == 0 - 1

\* x not in [None, '', 'null']  (x is the entry under a key that is present)
IsSet(x) ==
    ~(x.k = "none" \/ (x.k = "str" /\ x.s \in {<<>>, NullStr}))

\* float(x) for a string or a number
Float(x) == IF x.k = "str" THEN ParseFloat(x.s) ELSE x.f

\* evaluating r['min'] / r['max'] and the float() around it raises
\* (KeyError for an absent key, ValueError for a string that is no number)
BoundRaises(x) ==
    x.k = "missing" \/ (IsSet(x) /\ Float(x).k = "ValueError")

min_val(r) == IF IsSet(r.min) THEN Float(r.min) ELSE NInf
max_val(r) == IF IsSet(r.max) THEN Float(r.max) ELSE PInf

InRangeStrictLow(value, r) == FLt(min_val(r), value.f) /\ FLe(value.f, max_val(r))

\* min_val <= value <= max_val
InRange(value, r) == FLe(min_val(r), value.f) /\ FLe(value.f, max_val(r))

\* r.get('label', '').lower() raises for a label that is None
LabelRaises(r) == r.label.k = "none"
LabelLower(r) == IF r.label.k = "missing" THEN <<>> ELSE Lower(r.label.s)

NumericLoopLastMatch(value, ranges, i) ==
    IF \E j \in i..Len(ranges) :
            BoundRaises(ranges[j].min) \/ BoundRaises(ranges[j].max)
    THEN Raised
    ELSE IF \E j \in i..Len(ranges) : InRange(value, ranges[j])
    THEN CHOOSE j \in i..Len(ranges) :
            /\ InRange(value, ranges[j])
            /\ \A l \in (j + 1)..Len(ranges) : ~InRange(value, ranges[l])
    ELSE 0

\* a loop that steps over a range whose bounds cannot be read
RECURSIVE NumericLoopSkipMalformed(_, _, _)
NumericLoopSkipMalformed(value, ranges, i) ==
    IF i > Len(ranges) THEN 0
    ELSE IF BoundRaises(ranges[i].min) \/ BoundRaises(ranges[i].max)
    THEN NumericLoopSkipMalformed(value, ranges, i + 1)
    ELSE IF InRange(value, ranges[i]) THEN i
    ELSE NumericLoopSkipMalformed(value, ranges, i + 1)

\* the numeric loop from position i on: index of the dict returned, 0 when the
\* loop ends, Raised when an exception leaves the loop
RECURSIVE NumericLoop(_, _, _)
NumericLoop(value, ranges, i) ==
    IF i > Len(ranges) THEN 0
    ELSE IF BoundRaises(ranges[i].min) \/ BoundRaises(ranges[i].max) THEN Raised
    ELSE IF InRange(value, ranges[i]) THEN i
    ELSE NumericLoop(value, ranges, i + 1)

\* the label loops (boolean and categorical branch) from position i on
RECURSIVE LabelLoop(_, _, _)
LabelLoop(value_str, ranges, i) ==
    IF i > Len(ranges) THEN 0
    ELSE IF LabelRaises(ranges[i]) THEN Raised
    ELSE IF LabelLower(ranges[i]) = value_str THEN i
    ELSE LabelLoop(value_str, ranges, i + 1)

\* 'Sim' if value else 'Nao' (a-tilde)
BoolToken(b) == IF b THEN Sim ELSE Nao

TryBodyBoolAsNumber(value, ranges) ==
    IF value.t \in {"bool", "num"}
    THEN NumericLoop(VNum(IF value.t = "num" THEN value.f
                          ELSE Fin(IF value.b THEN 1 ELSE 0, 1)), ranges, 1)
    ELSE LabelLoop(Lower(Str(value)), ranges, 1)

TryBodyCaseSensitive(value, ranges) ==
    IF value.t = "bool" THEN LabelLoop(Lower(BoolToken(value.b)), ranges, 1)
    ELSE IF value.t = "num" THEN NumericLoop(value, ranges, 1)
    ELSE LabelLoop(Str(value), ranges, 1)

\* the body of the try block: dispatch on the runtime type of value
TryBody(value, ranges) ==
    IF value.t = "bool" THEN LabelLoop(Lower(BoolToken(value.b)), ranges, 1)
    ELSE IF value.t = "num" THEN NumericLoop(value, ranges, 1)
    ELSE LabelLoop(Lower(Str(value)), ranges, 1)

evaluate_no_except(value, ranges) == TryBody(value, ranges)

\* except: return None
Except(res) == IF res = Raised THEN 0 ELSE res

evaluate_first_on_miss(value, ranges) ==
    IF TryBody(value, ranges) = 0 /\ Len(ranges) > 0 THEN 1
    ELSE Except(TryBody(value, ranges))

\* try: ... return r / return None   except: return None
evaluate_criterion_value(value, ranges) == Except(TryBody(value, ranges))

-----------------------------------------------------------------------------
(* Inputs of the evaluator *)

MaxRanges == 2
MaxValue == 5

NotCalled == 0 - 2

EvNumbers ==
    {Fin(n, 1) : n \in (0 - 1)..MaxValue} \cup {Fin(5, 2), PInf, NaN}

EvValues ==
    {VNum(f) : f \in EvNumbers}
        \cup {VBool(TRUE), VBool(FALSE), VNone,
              VStr(<<"s", "I", "m">>), VStr(<<"A">>), VStr(<<>>)}

EvMins ==
    {FNone, FStr(<<>>), FStr(NullStr), FStr(<<"2">>), FStr(<<" ", "2", ".", "5">>),
     FNum(4), FStr(<<"x">>), FStr(<<"n", "a", "n">>), FMissing}

EvMaxs ==
    {FNone, FStr(NullStr), FStr(<<"2">>), FStr(<<"5", ".", "0", " ">>), FNum(3),
     FStr(<<"N", "~a", "o">>), FMissing}

EvLabels ==
    {FMissing, FNone, FStr(Sim), FStr(<<"S", "I", "M">>), FStr(<<"N", "~A", "O">>),
     FStr(<<"a">>), FStr(<<"n", "o", "n", "e">>)}

\* every min against two maxima, every max against two minima, and every label
\* against a min that is absent, unset or no number
EvDicts ==
    {Range(mn, mx, FStr(<<"A">>), 0) :
        mn \in EvMins, mx \in {FNone, FStr(<<"5", ".", "0", " ">>)}}
        \cup {Range(mn, mx, FStr(<<"A">>), 0) :
                mn \in {FNone, FStr(<<"2">>)}, mx \in EvMaxs}
        \cup {Range(mn, FNone, lb, 0) :
                mn \in {FNone, FStr(<<"x">>), FMissing}, lb \in EvLabels}

\* the ranges a list longer than two continues with
EvTailDicts ==
    {Range(FNone, FStr(<<"5", ".", "0", " ">>), FStr(<<"A">>), 0),
     Range(FStr(<<"2">>), FNone, FStr(<<"A">>), 0),
     Range(FNum(4), FNone, FStr(<<"A">>), 0),
     Range(FStr(<<"x">>), FNone, FStr(<<"a">>), 0),
     Range(FNone, FNone, FStr(Sim), 0),
     Range(FNone, FNone, FNone, 0)}

\* lists of up to MaxRanges ranges: the first two places hold any range of
\* EvDicts, the places after them a range of EvTailDicts
EvRangeLists ==
    UNION {[1..n -> EvDicts] : n \in 0..(IF MaxRanges < 2 THEN MaxRanges ELSE 2)}
        \cup {h \o t : h \in [1..2 -> EvDicts],
                       t \in UNION {[1..n -> EvTailDicts] : n \in 1..(MaxRanges - 2)}}

-----------------------------------------------------------------------------
(* The evaluator called once on an arbitrary input *)

EvInit ==
    /\ ev_value \in EvValues
    /\ ev_ranges \in EvRangeLists
    /\ ev_result = NotCalled
    /\ ev_pc = "ready"

EvCall ==
    /\ ev_pc = "ready"
    /\ ev_result' = evaluate_criterion_value(ev_value, ev_ranges)
    /\ ev_pc' = "done"
    /\ UNCHANGED <<ev_value, ev_ranges, wz_vars, cl_vars, va_vars, me_vars, ap_vars>>

-----------------------------------------------------------------------------
(* Vocabulary of the evaluator's properties *)

\* the entry leaves the side unbounded: None, '' or 'null'
Unbounded(x) == x.k = "none" \/ (x.k = "str" /\ (x.s = <<>> \/ x.s = NullStr))

\* the entry is present and is unbounded or a number other than nan
WellFormedBound(x) ==
    /\ x.k # "missing"
    /\ Unbounded(x) \/ Float(x).k \in {"fin", "pinf", "ninf"}

\* the key is absent, or the entry is a string that float() rejects
Malformed(x) ==
    x.k = "missing" \/ (~Unbounded(x) /\ Float(x).k = "ValueError")

WellFormed(r) == WellFormedBound(r.min) /\ WellFormedBound(r.max)

LowerEnd(r) == IF Unbounded(r.min) THEN NInf ELSE Float(r.min)
UpperEnd(r) == IF Unbounded(r.max) THEN PInf ELSE Float(r.max)

\* v lies in the closed interval [min, max] of a well-formed range
Covers(v, r) == WellFormed(r) /\ FLe(LowerEnd(r), v) /\ FLe(v, UpperEnd(r))

\* the closed intervals of two well-formed ranges share no point
Disjoint(r1, r2) ==
    ~(/\ FLe(LowerEnd(r1), UpperEnd(r1)) /\ FLe(LowerEnd(r2), UpperEnd(r2))
      /\ FLe(LowerEnd(r1), UpperEnd(r2)) /\ FLe(LowerEnd(r2), UpperEnd(r1)))

EvDone == ev_pc = "done"
EvNumeric == ev_value.t = "num"
EvAllWellFormed == \A i \in DOMAIN ev_ranges : WellFormed(ev_ranges[i])


\* the label of a range as a string ('' when the key is absent); a null label
\* is no string and equals none
LabelIs(r, token) ==
    /\ r.label.k # "none"
    /\ Lower(IF r.label.k = "missing" THEN <<>> ELSE r.label.s) = Lower(token)

NullLabelBefore(rs, m) ==
    \E j \in DOMAIN rs : (m = 0 \/ j < m) /\ rs[j].label.k = "none"

\* the first of a set of positions, 0 when there is none
FirstIndex(ps) ==
    IF ps = {} THEN 0 ELSE CHOOSE i \in ps : \A j \in ps : i <= j

\* the positions of the ranges of rs whose label equals token case-insensitively
Matching(rs, token) == {i \in DOMAIN rs : LabelIs(rs[i], token)}

-----------------------------------------------------------------------------
(* C1: for a numeric value and well-formed ranges the call returns the first *)
(* range, in list order, whose closed interval [min, max] contains the value *)
(* (None, '' and 'null' are unbounded); the list is never sorted.            *)
Thm_C1 ==
    (EvDone /\ EvNumeric /\ EvAllWellFormed) =>
        \A i \in DOMAIN ev_ranges :
            (/\ Covers(ev_value.f, ev_ranges[i])
             /\ \A j \in 1..(i - 1) : ~Covers(ev_value.f, ev_ranges[j]))
                => ev_result = i

\* two overlapping ranges cover the value, the later one has the lower minimum,
\* and the earlier one is returned
Wit_C1 ==
    /\ EvDone /\ EvNumeric /\ EvAllWellFormed
    /\ Len(ev_ranges) = 2
    /\ Covers(ev_value.f, ev_ranges[1]) /\ Covers(ev_value.f, ev_ranges[2])
    /\ FLt(LowerEnd(ev_ranges[2]), LowerEnd(ev_ranges[1]))
    /\ FLe(ev_value.f, LowerEnd(ev_ranges[1]))
    /\ ev_result = 1

(* C2: for a numeric value and pairwise disjoint well-formed ranges one of   *)
(* which covers the value, the call returns that covering range, whatever    *)
(* the order of the list.                                                    *)
Thm_C2 ==
    (/\ EvDone /\ EvNumeric /\ EvAllWellFormed
     /\ \A i, j \in DOMAIN ev_ranges :
            i # j => Disjoint(ev_ranges[i], ev_ranges[j])
     /\ \E i \in DOMAIN ev_ranges : Covers(ev_value.f, ev_ranges[i]))
        => /\ ev_result \in DOMAIN ev_ranges
           /\ Covers(ev_value.f, ev_ranges[ev_result])
           /\ \A p \in Reorderings(ev_ranges) :
                LET res == evaluate_criterion_value(ev_value, p)
                IN  res \in DOMAIN p /\ p[res] = ev_ranges[ev_result]

\* disjoint ranges listed in descending order, the value on the closed end of
\* the second one
Wit_C2 ==
    /\ EvDone /\ EvNumeric /\ EvAllWellFormed
    /\ Len(ev_ranges) = 2
    /\ Disjoint(ev_ranges[1], ev_ranges[2])
    /\ FLt(UpperEnd(ev_ranges[2]), LowerEnd(ev_ranges[1]))
    /\ LowerEnd(ev_ranges[2]).k = "fin"
    /\ ev_value.f.k = "fin"
    /\ FLe(ev_value.f, LowerEnd(ev_ranges[2]))
    /\ ev_result = 2

(* C3: a numeric value below every range's minimum or above every range's    *)
(* maximum gives None; more generally None is returned whenever no range's   *)
(* closed interval contains the value, also for the empty list.              *)
Thm_C3 ==
    (EvDone /\ EvNumeric) =>
        /\ (~\E i \in DOMAIN ev_ranges : Covers(ev_value.f, ev_ranges[i]))
                => ev_result = 0
        /\ (/\ EvAllWellFormed
            /\ \/ \A i \in DOMAIN ev_ranges : FLt(ev_value.f, LowerEnd(ev_ranges[i]))
               \/ \A i \in DOMAIN ev_ranges : FLt(UpperEnd(ev_ranges[i]), ev_value.f))
                => ev_result = 0

\* two bounded ranges, the value above both maxima
Wit_C3 ==
    /\ EvDone /\ EvNumeric /\ EvAllWellFormed
    /\ Len(ev_ranges) = 2
    /\ ev_value.f.k = "fin"
    /\ \A i \in DOMAIN ev_ranges :
            /\ UpperEnd(ev_ranges[i]).k = "fin"
            /\ FLt(UpperEnd(ev_ranges[i]), ev_value.f)
    /\ ev_result = 0

(* C4: a boolean is mapped to 'Sim' / 'Nao' and the first range whose label  *)
(* equals the token case-insensitively is returned, whatever min and max are *)
(* and never by the numeric branch; None when no label matches.              *)
Cex_C4 ==
    (EvDone /\ ev_value.t = "bool") =>
        ev_result = FirstIndex(Matching(ev_ranges, IF ev_value.b THEN Sim ELSE Nao))

(* C4 as amended: the first matching range is returned provided no range     *)
(* listed before it has a null label; a null label met first gives None.     *)
Thm_C4 ==
    (EvDone /\ ev_value.t = "bool") =>
        LET m == FirstIndex(Matching(ev_ranges, IF ev_value.b THEN Sim ELSE Nao))
        IN  ev_result = IF NullLabelBefore(ev_ranges, m) THEN 0 ELSE m

\* True against a first range that is unbounded on both sides (the numeric
\* branch would take it) and a second one labelled "SIM" with a min that is
\* no number
Wit_C4 ==
    /\ EvDone /\ ev_value = VBool(TRUE)
    /\ Len(ev_ranges) = 2
    /\ Unbounded(ev_ranges[1].min) /\ Unbounded(ev_ranges[1].max)
    /\ ev_ranges[1].label = FStr(<<"A">>)
    /\ ev_ranges[2].label = FStr(<<"S", "I", "M">>)
    /\ ev_ranges[2].min = FStr(<<"x">>)
    /\ ev_result = 2

(* C5: a value that is neither boolean nor numeric gets the first range, in  *)
(* list order, whose label equals str(value) case-insensitively, else None.  *)
Cex_C5 ==
    (EvDone /\ ev_value.t \in {"str", "none"}) =>
        ev_result = FirstIndex(Matching(ev_ranges, Str(ev_value)))

(* C5 as amended: the first matching range is returned provided no range     *)
(* listed before it has a null label; a null label met first gives None.     *)
Thm_C5 ==
    (EvDone /\ ev_value.t \in {"str", "none"}) =>
        LET m == FirstIndex(Matching(ev_ranges, Str(ev_value)))
        IN  ev_result = IF NullLabelBefore(ev_ranges, m) THEN 0 ELSE m

\* "sIm" against two ranges labelled "SIM" and "Sim": the first is returned
Wit_C5 ==
    /\ EvDone /\ ev_value = VStr(<<"s", "I", "m">>)
    /\ Len(ev_ranges) = 2
    /\ ev_ranges[1].label = FStr(<<"S", "I", "M">>)
    /\ ev_ranges[2].label = FStr(Sim)
    /\ ev_result = 1

(* C6: the call never raises: for every value and every list, also with a    *)
(* min or max that is no number, an absent min or max key or a null label,   *)
(* it returns an element of the list or None, and a malformed bound or null  *)
(* label that the scan reaches gives None.                                   *)
Thm_C6 ==
    EvDone =>
        /\ ev_result \in 0..Len(ev_ranges)
        /\ (/\ EvNumeric
            /\ \E i \in DOMAIN ev_ranges :
                /\ Malformed(ev_ranges[i].min) \/ Malformed(ev_ranges[i].max)
                /\ \A j \in 1..(i - 1) : ~Covers(ev_value.f, ev_ranges[j]))
                => ev_result = 0
        /\ (/\ ~EvNumeric
            /\ \E i \in DOMAIN ev_ranges :
                /\ ev_ranges[i].label.k = "none"
                /\ \A j \in 1..(i - 1) : ev_result # j)
                => ev_result = 0

\* a numeric value, a first range without the max key, a second range that
\* covers the value: None
Wit_C6 ==
    /\ EvDone /\ EvNumeric
    /\ Len(ev_ranges) = 2
    /\ ev_ranges[1].max = FMissing
    /\ Covers(ev_value.f, ev_ranges[2])
    /\ ev_result = 0

\* the positions of the ranges that cover the numeric value, and of the ranges
\* with a min or max that is absent or no number
CoveringPositions == {i \in DOMAIN ev_ranges : Covers(ev_value.f, ev_ranges[i])}
MalformedPositions ==
    {i \in DOMAIN ev_ranges :
        Malformed(ev_ranges[i].min) \/ Malformed(ev_ranges[i].max)}

(* C23: for a numeric value and a list with a covering range, a malformed    *)
(* range (min or max no number, or the key absent) listed before the first   *)
(* covering range gives None; when every malformed range is listed after the *)
(* first covering range, that covering range is returned.                    *)
Thm_C23 ==
    (EvDone /\ EvNumeric /\ CoveringPositions # {}) =>
        LET c == FirstIndex(CoveringPositions)
        IN  /\ (\E j \in MalformedPositions : j < c) => ev_result = 0
            /\ (\A j \in MalformedPositions : j > c) => ev_result = c

\* the value 3 against a range with the min 'x' followed by the range from 2:
\* None, although the second range covers 3
Wit_C23 ==
    /\ EvDone /\ ev_value = VNum(Fin(3, 1))
    /\ Len(ev_ranges) = 2
    /\ ev_ranges[1].min = FStr(<<"x">>)
    /\ ev_ranges[2].min = FStr(<<"2">>) /\ ev_ranges[2].max = FNone
    /\ MalformedPositions = {1} /\ CoveringPositions = {2}
    /\ ev_result = 0

-----------------------------------------------------------------------------
(* utils/db.py: the methodology tree as the wizard loads it *)

\* the rows in the order they are stored
get_ranges_as_stored(rows) == {rows}

\* rows of one criterion ordered by points descending; rows with equal points
\* come in any order
get_ranges_by_criterion(rows) ==
    {rs \in Reorderings(rows) :
        \A i, j \in DOMAIN rs : i < j => rs[i].points >= rs[j].points}

LoadCriterion(c) ==
    {[c EXCEPT !.ranges = rs] : rs \in get_ranges_by_criterion(c.ranges)}

LoadPillar(p) ==
    {[p EXCEPT !.criteria = cs] :
        cs \in SeqChoices([i \in DOMAIN p.criteria |-> LoadCriterion(p.criteria[i])])}

\* the trees a call may return for the stored rows
get_full_methodology_tree(db) ==
    {[db EXCEPT !.pillars = ps] :
        ps \in SeqChoices([i \in DOMAIN db.pillars |-> LoadPillar(db.pillars[i])])}

-----------------------------------------------------------------------------
(* pages/analysis_wizard.py: one run of new_analysis_tab *)

\* f"input_{criterion_id}"
InputKey(id) == <<"input", id>>

\* the labels of a range list, first occurrences in list order (dict keys)
RECURSIVE DictKeys(_, _)
DictKeys(labels, seen) ==
    IF labels = <<>> THEN <<>>
    ELSE IF Head(labels) \in seen THEN DictKeys(Tail(labels), seen)
    ELSE <<Head(labels)>> \o DictKeys(Tail(labels), seen \cup {Head(labels)})

Labels(ranges) == [i \in DOMAIN ranges |-> ranges[i].label.s]

Elements(xs) == {xs[i] : i \in DOMAIN xs}

\* the value the input widget of a criterion returns in this run: the value the
\* widget holds, or its default when it holds none; None for an unknown type
render_criterion_input(c, wi, inputs) ==
    IF c.type \in {"numeric", "percent"}
    THEN Get(wi, c.id, Get(inputs, InputKey(c.id), VNum(Fin(0, 1))))
    ELSE IF c.type = "boolean" THEN Get(wi, c.id, VBool(TRUE))
    ELSE IF c.type = "categorical"
    THEN (IF c.ranges # <<>>
          THEN (IF c.id \in DOMAIN wi /\ wi[c.id].s \in Elements(Labels(c.ranges))
                THEN wi[c.id]
                ELSE VStr(c.ranges[1].label.s))
          ELSE Get(wi, c.id, VStr(<<>>)))
    ELSE VNone

\* the criterion renders an input widget
HasWidget(c) == c.type \in {"numeric", "percent", "boolean", "categorical"}

\* input_value is not None and criterion.get('ranges'), then the evaluator:
\* index of the evaluated range, 0 when the criterion is not evaluated or the
\* evaluator returns None
EvaluatedRange(c, value) ==
    IF value # VNone /\ c.ranges # <<>>
    THEN evaluate_criterion_value(value, c.ranges)
    ELSE 0

\* range_options[selected_label]: a later range replaces an earlier one with
\* the same label
RangeOption(ranges, label) ==
    CHOOSE i \in DOMAIN ranges :
        /\ ranges[i].label.s = label
        /\ \A j \in (i + 1)..Len(ranges) : ranges[j].label.s # label

\* the label the manual select box returns: the one it holds, else the first
SelectedLabel(c, wm) ==
    IF c.id \in DOMAIN wm /\ wm[c.id] \in Elements(Labels(c.ranges))
    THEN wm[c.id]
    ELSE DictKeys(Labels(c.ranges), {})[1]

\* a pass that keeps the points of the range the evaluator returned
CriterionOutcomeAutoPoints(c, value, auto, ov, sel) ==
    [id |-> c.id,
     widget |-> HasWidget(c),
     value |-> value,
     matched |-> auto # 0,
     warned |-> value # VNone /\ c.ranges # <<>> /\ auto = 0,
     manual |-> ov,
     label |-> IF ov THEN c.ranges[sel].label.s ELSE <<>>,
     used |-> auto,
     points |-> IF auto # 0 THEN c.ranges[auto].points ELSE 0]

\* what one pass of the criterion loop body leaves for criterion c, given the
\* input value, the evaluated range auto, whether the manual select box is
\* shown (ov) and the range picked in it (sel, 0 when not shown):
\*   matched  the evaluator returned a range
\*   warned   the 'value outside the ranges' warning is shown
\*   used     index of the range whose points are appended, 0 when none
CriterionOutcome(c, value, auto, ov, sel) ==
    [id |-> c.id,
     widget |-> HasWidget(c),
     value |-> value,
     matched |-> auto # 0,
     warned |-> value # VNone /\ c.ranges # <<>> /\ auto = 0,
     manual |-> ov,
     label |-> IF ov THEN c.ranges[sel].label.s ELSE <<>>,
     used |-> IF ov THEN sel ELSE auto,
     points |-> IF ov THEN c.ranges[sel].points
                ELSE IF auto # 0 THEN c.ranges[auto].points ELSE 0]

\* the override branch: taken when the evaluator matched and the criterion is
\* in analysis_overrides or its Override button was pressed in this run
CriterionOverride(c, value, auto, ov, wm) ==
    CriterionOutcome(c, value, auto, ov,
                     IF ov THEN RangeOption(c.ranges, SelectedLabel(c, wm)) ELSE 0)

CriterionEvaluated(c, value, auto, wm, overrides, clicked) ==
    CriterionOverride(c, value, auto,
                      auto # 0 /\ (c.id \in overrides \/ clicked = c.id), wm)

CriterionInput(c, value, wm, overrides, clicked) ==
    CriterionEvaluated(c, value, EvaluatedRange(c, value), wm, overrides, clicked)

\* one pass of the criterion loop body for criterion c
CriterionRun(c, wi, wm, inputs, overrides, clicked) ==
    CriterionInput(c, render_criterion_input(c, wi, inputs), wm, overrides, clicked)

\* pillar_results: the points appended, in criterion order
RECURSIVE PillarResults(_)
PillarResults(runs) ==
    IF runs = <<>> THEN <<>>
    ELSE (IF Head(runs).used # 0 THEN <<Head(runs).points>> ELSE <<>>)
            \o PillarResults(Tail(runs))

PillarScoreSum(runs) == Rat(Sum(PillarResults(runs)), 1)

PillarScoreOverAll(runs) == Rat(Sum(PillarResults(runs)), Len(runs))

\* sum(r['points'] for r in pillar_results) / len(pillar_results)
PillarScore(runs) == Rat(Sum(PillarResults(runs)), Len(PillarResults(runs)))

\* if pillar_results:
Contributes(runs) == PillarResults(runs) # <<>>

\* the totals after a contributing pillar i: acc = [total_score, total_weight,
\* results_by_pillar, metrics], metrics the 'Score do Pilar' metric shown for
\* each pillar that has one
AddPillar(acc, i, pillar, results, pillar_score, weighted_pillar_score) ==
    [total_score |-> RAdd(acc.total_score, weighted_pillar_score),
     total_weight |-> acc.total_weight + pillar.weight,
     results_by_pillar |->
        Put(acc.results_by_pillar, pillar.name,
            [score |-> pillar_score,
             weight |-> pillar.weight,
             weighted_score |-> weighted_pillar_score,
             criteria_results |-> results]),
     metrics |-> Put(acc.metrics, i,
                     [score |-> pillar_score, weighted |-> weighted_pillar_score])]

\* the body of 'if pillar_results:' for pillar i
ScorePillar(acc, i, pillar, runs) ==
    AddPillar(acc, i, pillar, PillarResults(runs), PillarScore(runs),
              RMul(PillarScore(runs), pillar.weight))

RECURSIVE PillarLoopAllWeights(_, _, _, _)
PillarLoopAllWeights(pillars, runs, i, acc) ==
    IF i > Len(pillars) THEN acc
    ELSE IF ~Contributes(runs[i])
    THEN PillarLoopAllWeights(pillars, runs, i + 1,
            [acc EXCEPT !.total_weight = @ + pillars[i].weight])
    ELSE PillarLoopAllWeights(pillars, runs, i + 1,
                              ScorePillar(acc, i, pillars[i], runs[i]))

\* the pillar loop from pillar i on
RECURSIVE PillarLoop(_, _, _, _)
PillarLoop(pillars, runs, i, acc) ==
    IF i > Len(pillars) THEN acc
    ELSE IF ~Contributes(runs[i]) THEN PillarLoop(pillars, runs, i + 1, acc)
    ELSE PillarLoop(pillars, runs, i + 1, ScorePillar(acc, i, pillars[i], runs[i]))

classify_score_exclusive(score) ==
    IF FLt(Fin(8, 1), score) THEN "Excelente"
    ELSE IF FLt(Fin(6, 1), score) THEN "Bom"
    ELSE IF FLt(Fin(4, 1), score) THEN "Medio"
    ELSE "Fraco"

\* classify_score on a float (labels without their emoji; "Medio" stands for
\* the label with e-acute)
classify_score(score) ==
    IF FLe(Fin(8, 1), score) THEN "Excelente"
    ELSE IF FLe(Fin(6, 1), score) THEN "Bom"
    ELSE IF FLe(Fin(4, 1), score) THEN "Medio"
    ELSE "Fraco"

FinalScoreZeroDefault(acc) ==
    IF acc.total_weight > 0
    THEN [has_final |-> TRUE, final_score |-> RDiv(acc.total_score, acc.total_weight)]
    ELSE [has_final |-> TRUE, final_score |-> Rat(0, 1)]

\* if total_weight > 0: final_score = total_score / total_weight
FinalScore(acc) ==
    IF acc.total_weight > 0
    THEN [has_final |-> TRUE, final_score |-> RDiv(acc.total_score, acc.total_weight)]
    ELSE [has_final |-> FALSE, final_score |-> Unassigned]

\* how far the run gets before it returns
Stage(tr, ticker) ==
    IF ~tr.present THEN "no_methodology"
    ELSE IF ticker = <<>> THEN "no_ticker"
    ELSE IF tr.pillars = <<>> THEN "no_pillars"
    ELSE "form"

AllRuns(runs) == UNION {Elements(runs[i]) : i \in DOMAIN runs}

\* total_score = 0, total_weight = 0, results_by_pillar = {}
ZeroTotals ==
    [total_score |-> Rat(0, 1), total_weight |-> 0, results_by_pillar |-> EmptyDict,
     metrics |-> EmptyDict]

\* the criterion loops of all pillars
FormRuns(tr, wi, wm, inputs, overrides, clicked) ==
    [i \in DOMAIN tr.pillars |->
        [j \in DOMAIN tr.pillars[i].criteria |->
            CriterionRun(tr.pillars[i].criteria[j], wi, wm, inputs, overrides, clicked)]]

\* st.session_state.analysis_inputs after the criterion loops
InputsAfter(inputs, shown) ==
    [k \in DOMAIN inputs \cup {InputKey(r.id) : r \in shown} |->
        IF \E r \in shown : InputKey(r.id) = k
        THEN (CHOOSE r \in shown : InputKey(r.id) = k).value
        ELSE inputs[k]]

\* what the run leaves behind once the scores are known
PageResult(tr, tick, stage, runs, acc, fin, classification, inputs1, overrides1, pressed, result) ==
    [ticker_widget |-> IF stage = "no_methodology" THEN <<>> ELSE tick,
     w_input |-> [id \in {r.id : r \in {x \in AllRuns(runs) : x.widget}} |->
                    (CHOOSE r \in AllRuns(runs) : r.id = id).value],
     w_manual |-> [id \in {r.id : r \in {x \in AllRuns(runs) : x.manual}} |->
                    (CHOOSE r \in AllRuns(runs) : r.id = id).label],
     analysis_inputs |-> IF result THEN EmptyDict ELSE inputs1,
     analysis_overrides |-> IF result THEN {} ELSE overrides1,
     inserted |-> IF result
                  THEN <<[inputs |-> inputs1,
                          results |-> [final_score |-> fin.final_score,
                                       classification |-> classification,
                                       by_pillar |-> acc.results_by_pillar]]>>
                  ELSE <<>>,
     view |-> [stage |-> stage,
               tree |-> tr,
               runs |-> runs,
               total_score |-> acc.total_score,
               total_weight |-> acc.total_weight,
               results_by_pillar |-> acc.results_by_pillar,
               pillar_metrics |-> acc.metrics,
               has_final |-> fin.has_final,
               final_score |-> fin.final_score,
               classification |-> classification,
               save_button |-> fin.has_final,
               save_result |-> IF result THEN "saved"
                               ELSE IF pressed THEN "failed" ELSE "none"]]

\* a page that empties the session entries whenever Save is pressed
PageSaveResetOnPress(tr, tick, stage, runs, acc, fin, inputs1, overrides1, save_clicked, insert_ok) ==
    PageResult(tr, tick, stage, runs, acc, fin,
               IF fin.has_final
               THEN classify_score(Fin(fin.final_score.n, fin.final_score.d))
               ELSE "",
               IF fin.has_final /\ save_clicked THEN EmptyDict ELSE inputs1,
               IF fin.has_final /\ save_clicked THEN {} ELSE overrides1,
               fin.has_final /\ save_clicked,
               fin.has_final /\ save_clicked /\ insert_ok)

\* from the final score on: classification, the Save button and the insert
PageSave(tr, tick, stage, runs, acc, fin, inputs1, overrides1, save_clicked, insert_ok) ==
    PageResult(tr, tick, stage, runs, acc, fin,
               IF fin.has_final
               THEN classify_score(Fin(fin.final_score.n, fin.final_score.d))
               ELSE "",
               inputs1, overrides1,
               fin.has_final /\ save_clicked,
               fin.has_final /\ save_clicked /\ insert_ok)

\* from the pillar totals on
PageFinal(tr, tick, stage, runs, acc, inputs, overrides, save_clicked, insert_ok) ==
    PageSave(tr, tick, stage, runs, acc,
             IF stage = "form" THEN FinalScore(acc)
             ELSE [has_final |-> FALSE, final_score |-> Unassigned],
             InputsAfter(inputs, {r \in AllRuns(runs) : r.widget}),
             overrides \cup {r.id : r \in {x \in AllRuns(runs) : x.manual}},
             save_clicked, insert_ok)

\* from the criterion loops on
PageScores(tr, tick, stage, runs, inputs, overrides, save_clicked, insert_ok) ==
    PageFinal(tr, tick, stage, runs,
              IF stage = "form" THEN PillarLoop(tr.pillars, runs, 1, ZeroTotals)
              ELSE ZeroTotals,
              inputs, overrides, save_clicked, insert_ok)

\* the run once it is known how far it gets
PageForm(tr, tick, stage, wi, wm, inputs, overrides, clicked, save_clicked, insert_ok) ==
    PageScores(tr, tick, stage,
               IF stage = "form" THEN FormRuns(tr, wi, wm, inputs, overrides, clicked)
               ELSE <<>>,
               inputs, overrides, save_clicked, insert_ok)

\* one run of the page on the loaded tree tr with the ticker text tick and the
\* widget states wi, wm; clicked is the id whose Override button was pressed
\* (0 for none), save_clicked the Save button, insert_ok whether the insert of
\* create_analysis returns the record
Script(tr, tick, wi, wm, clicked, save_clicked, insert_ok) ==
    PageForm(tr, tick, Stage(tr, Upper(tick)), wi, wm,
             analysis_inputs, analysis_overrides, clicked, save_clicked, insert_ok)

-----------------------------------------------------------------------------
(* The methodologies and the inputs of the wizard *)

MaxPillars == 2
MaxCriteria == 2
MaxWeight == 2
MaxAnalyses == 1
MaxOverrides == 1
MaxTailCriteria == 1

\* values typed into a numeric input
NumInputs == {0, 5}

\* criterion configurations (type and range rows as stored):
\*   1 numeric, two overlapping bands stored lowest points first
\*   2 numeric, a band [0, 3] and a row whose min is no number
\*   3 boolean with a band for 'Sim' only
\*   4 categorical with two labels that differ in case only
\*   5 a type the input renderer does not know
\*   6 categorical without range rows (free text input)
CriterionKinds ==
    << [type |-> "numeric",
        ranges |-> << Range(FNone, FStr(<<"5">>), FStr(<<"L">>), 6),
                      Range(FStr(<<"5">>), FNone, FStr(<<"H">>), 8) >>],
       [type |-> "numeric",
        ranges |-> << Range(FStr(<<"x">>), FNone, FStr(<<"B">>), 0),
                      Range(FStr(<<"0">>), FStr(<<"3">>), FStr(<<"A">>), 10) >>],
       [type |-> "boolean",
        ranges |-> << Range(FNone, FNone, FStr(Sim), 8) >>],
       [type |-> "categorical",
        ranges |-> << Range(FNone, FNone, FStr(<<"A">>), 6),
                      Range(FNone, FNone, FStr(<<"a">>), 10) >>],
       [type |-> "text",
        ranges |-> << Range(FNone, FNone, FStr(<<"A">>), 6) >>],
       [type |-> "categorical", ranges |-> <<>>] >>

PillarNames == {"Gestao", "Risco"}

\* the kinds used in methodologies of several pillars: always scored (1),
\* scored or unmatched (3), never scored (5)
AggregateKinds == {1, 3, 5}

\* the criteria of a pillar: up to n kinds in non-decreasing order (the order
\* of the criteria of a pillar only orders the points that are summed)
KindLists(kinds, n) ==
    {ks \in UNION {[1..m -> kinds] : m \in 0..n} :
        \A i, j \in DOMAIN ks : i < j => ks[i] <= ks[j]}

PillarShapes(kinds, n) ==
    [name : PillarNames, weight : 1..MaxWeight, kinds : KindLists(kinds, n)]

MkPillar(i, shape) ==
    [name |-> shape.name,
     weight |-> shape.weight,
     criteria |-> [j \in DOMAIN shape.kinds |->
                    [id |-> 10 * i + j,
                     type |-> CriterionKinds[shape.kinds[j]].type,
                     ranges |-> CriterionKinds[shape.kinds[j]].ranges]]]

\* lists of 1..MaxPillars pillar shapes: a single pillar over every kind, or
\* several pillars over the aggregate kinds, the pillars after the first with
\* up to MaxTailCriteria criteria (the first pillar carries the first name:
\* names only matter by being equal or not)
ShapeLists ==
    {ss \in [1..1 -> PillarShapes(DOMAIN CriterionKinds, MaxCriteria)] \cup
            UNION {[1..n -> PillarShapes(AggregateKinds, MaxCriteria)] : n \in 2..MaxPillars} :
        /\ ss[1].name = "Gestao"
        /\ \A i \in 2..Len(ss) : Len(ss[i].kinds) <= MaxTailCriteria}

\* no methodology at all, a methodology without pillars, one pillar over every
\* kind, or several pillars over the aggregate kinds
WzTrees ==
    {[present |-> FALSE, pillars |-> <<>>], [present |-> TRUE, pillars |-> <<>>]}
        \cup {[present |-> TRUE, pillars |-> [i \in DOMAIN ss |-> MkPillar(i, ss[i])]] :
                ss \in ShapeLists}

TickerInputs == {<<>>, <<"h", "g", "l", "g", "1", "1">>}

StoredCriteria == UNION {Elements(wz_db.pillars[i].criteria) : i \in DOMAIN wz_db.pillars}

\* what the input widget of criterion c lets the user enter
InputChoices(c) ==
    IF c.type \in {"numeric", "percent"} THEN {VNum(Fin(n, 1)) : n \in NumInputs}
    ELSE IF c.type = "boolean" THEN {VBool(TRUE), VBool(FALSE)}
    ELSE IF c.type = "categorical" /\ c.ranges # <<>>
    THEN {VStr(l) : l \in Elements(Labels(c.ranges))}
    ELSE IF c.type = "categorical" THEN {VStr(<<>>)}
    ELSE {}

-----------------------------------------------------------------------------
(* The wizard page: every action is a user event followed by the rerun *)

Closed == [stage |-> "closed"]

WzInit ==
    /\ wz_db \in WzTrees
    /\ ticker_widget = <<>>
    /\ w_input = EmptyDict
    /\ w_manual = EmptyDict
    /\ analysis_inputs = EmptyDict
    /\ analysis_overrides = {}
    /\ wz_view = Closed
    /\ analysis_data = <<>>

\* the model follows a session up to its MaxAnalyses-th saved analysis
SessionOpen == Len(analysis_data) < MaxAnalyses

Rerun(tick, wi, wm, clicked, save_clicked, insert_ok) ==
    \E tr \in get_full_methodology_tree(wz_db) :
        \E out \in {Script(tr, tick, wi, wm, clicked, save_clicked, insert_ok)} :
            /\ ticker_widget' = out.ticker_widget
            /\ w_input' = out.w_input
            /\ w_manual' = out.w_manual
            /\ analysis_inputs' = out.analysis_inputs
            /\ analysis_overrides' = out.analysis_overrides
            /\ wz_view' = out.view
            /\ analysis_data' = analysis_data \o out.inserted
            /\ UNCHANGED <<wz_db, ev_vars, cl_vars, va_vars, me_vars, ap_vars>>

\* the page is opened
WzOpen ==
    /\ SessionOpen
    /\ wz_view.stage = "closed"
    /\ Rerun(ticker_widget, w_input, w_manual, 0, FALSE, FALSE)

\* the user edits the ticker
WzSetTicker ==
    /\ SessionOpen
    /\ wz_view.stage \in {"no_ticker", "no_pillars", "form"}
    /\ \E t \in TickerInputs :
        /\ t # ticker_widget
        /\ Rerun(t, w_input, w_manual, 0, FALSE, FALSE)

\* the user changes the input of a criterion
WzSetInput ==
    /\ SessionOpen
    /\ wz_view.stage = "form"
    /\ \E c \in StoredCriteria :
        /\ c.id \in DOMAIN w_input
        /\ \E v \in InputChoices(c) :
            /\ v # w_input[c.id]
            /\ Rerun(ticker_widget, Put(w_input, c.id, v), w_manual, 0, FALSE, FALSE)

\* the user presses the Override button of a criterion
WzClickOverride ==
    /\ SessionOpen
    /\ wz_view.stage = "form"
    /\ Cardinality(analysis_overrides) < MaxOverrides
    /\ \E r \in AllRuns(wz_view.runs) :
        /\ r.matched
        /\ Rerun(ticker_widget, w_input, w_manual, r.id, FALSE, FALSE)

\* the user picks a range in a manual select box
WzSelectManual ==
    /\ SessionOpen
    /\ wz_view.stage = "form"
    /\ \E c \in StoredCriteria :
        /\ c.id \in DOMAIN w_manual
        /\ \E l \in Elements(Labels(c.ranges)) :
            /\ l # w_manual[c.id]
            /\ Rerun(ticker_widget, w_input, Put(w_manual, c.id, l), 0, FALSE, FALSE)

\* the user presses Save; the insert succeeds or fails
WzClickSave ==
    /\ SessionOpen
    /\ wz_view.stage = "form"
    /\ wz_view.save_button
    /\ \E insert_ok \in BOOLEAN :
        Rerun(ticker_widget, w_input, w_manual, 0, TRUE, insert_ok)

WzNext ==
    \/ WzOpen
    \/ WzSetTicker
    \/ WzSetInput
    \/ WzClickOverride
    \/ WzClickSave
    \/ WzSelectManual

-----------------------------------------------------------------------------
(* Vocabulary of the wizard's properties *)

\* the form was rendered in the last run
FormShown == wz_view.stage = "form"

ViewPillars == wz_view.tree.pillars

\* the criteria of pillar i that have an input value, a non-empty range list
\* and a range matching the value
ScoredCriteria(i) ==
    {j \in DOMAIN ViewPillars[i].criteria :
        /\ wz_view.runs[i][j].value # VNone
        /\ ViewPillars[i].criteria[j].ranges # <<>>
        /\ evaluate_criterion_value(wz_view.runs[i][j].value,
                                    ViewPillars[i].criteria[j].ranges) # 0}

\* the points criterion j of pillar i was awarded: those of the range used
AwardedPoints(i, j) ==
    ViewPillars[i].criteria[j].ranges[wz_view.runs[i][j].used].points

RECURSIVE SumPoints(_, _)
SumPoints(i, js) ==
    IF js = {} THEN 0
    ELSE LET j == CHOOSE x \in js : TRUE
         IN  AwardedPoints(i, j) + SumPoints(i, js \ {j})

\* the pillars with at least one scored criterion
ContributingPillars == {i \in DOMAIN ViewPillars : ScoredCriteria(i) # {}}

\* sum over the pillars ps of  mean points * weight, as a fraction over the
\* common denominator den (the product of the pillars' criterion counts)
RECURSIVE WeightedNumerator(_, _)
WeightedNumerator(ps, den) ==
    IF ps = {} THEN 0
    ELSE LET i == CHOOSE x \in ps : TRUE
         IN  (SumPoints(i, ScoredCriteria(i)) * ViewPillars[i].weight * den)
                 \div Cardinality(ScoredCriteria(i))
             + WeightedNumerator(ps \ {i}, den)

RECURSIVE CountProduct(_)
CountProduct(ps) ==
    IF ps = {} THEN 1
    ELSE LET i == CHOOSE x \in ps : TRUE
         IN  Cardinality(ScoredCriteria(i)) * CountProduct(ps \ {i})

RECURSIVE WeightSum(_)
WeightSum(ps) ==
    IF ps = {} THEN 0
    ELSE LET i == CHOOSE x \in ps : TRUE
         IN  ViewPillars[i].weight + WeightSum(ps \ {i})

\* the final score the page would compute were pillar i given the weight w
FinalWithWeight(i, w) ==
    FinalScore(PillarLoop([ViewPillars EXCEPT ![i].weight = w], wz_view.runs, 1,
                          ZeroTotals))

-----------------------------------------------------------------------------
(* C7: in every run of the wizard that shows the form, a pillar score is      *)
(* shown exactly for the pillars with at least one criterion that has an     *)
(* input value, a non-empty range list and a matched range, and it is the    *)
(* sum of the points awarded to those criteria divided by their number;      *)
(* the other criteria of the pillar enter neither the sum nor the count.     *)
Thm_C7 ==
    FormShown =>
        \A i \in DOMAIN ViewPillars :
            /\ (i \in DOMAIN wz_view.pillar_metrics) <=> (ScoredCriteria(i) # {})
            /\ {j \in DOMAIN wz_view.runs[i] : wz_view.runs[i][j].used # 0}
                    = ScoredCriteria(i)
            /\ ScoredCriteria(i) # {} =>
                wz_view.pillar_metrics[i].score.n * Cardinality(ScoredCriteria(i))
                    = SumPoints(i, ScoredCriteria(i)) * wz_view.pillar_metrics[i].score.d

\* a pillar with one scored criterion (8 points) and one criterion whose value
\* matches no range: the pillar score is 8, not 4
Wit_C7 ==
    /\ FormShown
    /\ \E i \in DOMAIN ViewPillars :
        /\ Len(ViewPillars[i].criteria) = 2
        /\ Cardinality(ScoredCriteria(i)) = 1
        /\ \E j \in DOMAIN wz_view.runs[i] : wz_view.runs[i][j].warned
        /\ SumPoints(i, ScoredCriteria(i)) = 8
        /\ wz_view.pillar_metrics[i].score = Rat(8, 1)

-----------------------------------------------------------------------------
(* C8: whenever some pillar has a scored criterion, the final score is the   *)
(* sum of pillar score * weight over the pillars with a scored criterion     *)
(* divided by the sum of the weights of those pillars, and it stays the same *)
(* whatever weight a pillar without a scored criterion is given.             *)
Thm_C8 ==
    (FormShown /\ ContributingPillars # {}) =>
        /\ wz_view.has_final
        /\ wz_view.total_weight = WeightSum(ContributingPillars)
        /\ wz_view.final_score.n * WeightSum(ContributingPillars)
                * CountProduct(ContributingPillars)
            = WeightedNumerator(ContributingPillars, CountProduct(ContributingPillars))
                * wz_view.final_score.d
        /\ \A i \in DOMAIN ViewPillars \ ContributingPillars :
            \A w \in 1..(MaxWeight + 1) :
                FinalWithWeight(i, w).final_score = wz_view.final_score

\* pillars {weight 1, points [8, 6]} and {weight 2, no points}: exactly 7
Wit_C8 ==
    /\ FormShown
    /\ Len(ViewPillars) = 2
    /\ ViewPillars[1].weight = 1
    /\ PillarResults(wz_view.runs[1]) = <<8, 6>>
    /\ ViewPillars[2].weight = 2
    /\ ViewPillars[2].criteria # <<>>
    /\ PillarResults(wz_view.runs[2]) = <<>>
    /\ wz_view.final_score = Rat(7, 1)

-----------------------------------------------------------------------------
(* C9: in a run in which no pillar has a scored criterion the total weight   *)
(* is zero, no final score is computed, nothing is classified and no Save    *)
(* button is offered; a Save button is offered only with a final score       *)
(* computed from a total weight above zero, and every analysis record        *)
(* created holds such a score.                                               *)
Thm_C9 ==
    /\ (FormShown /\ ContributingPillars = {}) =>
            /\ wz_view.total_weight = 0
            /\ ~wz_view.has_final
            /\ wz_view.final_score = Unassigned
            /\ wz_view.classification = ""
            /\ ~wz_view.save_button
            /\ wz_view.save_result = "none"
    /\ (wz_view.stage # "closed" /\ wz_view.save_button) =>
            /\ wz_view.has_final
            /\ wz_view.total_weight > 0
            /\ wz_view.final_score.d > 0
    /\ \A k \in DOMAIN analysis_data :
            /\ analysis_data[k].results.final_score.d > 0
            /\ analysis_data[k].results.classification # ""
            /\ DOMAIN analysis_data[k].results.by_pillar # {}

\* the form is shown with inputs entered, every value outside its ranges:
\* no score, no Save button
Wit_C9 ==
    /\ FormShown
    /\ \E i \in DOMAIN ViewPillars :
        \E j \in DOMAIN wz_view.runs[i] : wz_view.runs[i][j].warned
    /\ ContributingPillars = {}
    /\ ~wz_view.has_final
    /\ ~wz_view.save_button
    /\ analysis_data = <<>>

-----------------------------------------------------------------------------
(* Properties of the wizard: the unmatched criterion and the score scale *)

\* a manual override is offered for the criterion of run r: its Override
\* button or its manual select box is rendered in the run
OverrideOffered(r) == r.matched \/ r.manual

(* C19: when the evaluator returns None for the input of a criterion, the
   wizard offers a manual override of the range for that criterion, so that
   the criterion can still be scored by manual selection. *)
Cex_C19 ==
    FormShown => \A r \in AllRuns(wz_view.runs) : r.warned => OverrideOffered(r)

\* a criterion whose Override was requested while its value matched now has a
\* value outside its ranges: a warning only, no select box, no points
Wit_C19 ==
    /\ FormShown
    /\ \E r \in AllRuns(wz_view.runs) :
        /\ r.warned
        /\ r.id \in analysis_overrides
        /\ ~OverrideOffered(r)
        /\ r.used = 0

\* every points value of the methodology shown lies in 0..10
PointsInScale ==
    \A i \in DOMAIN ViewPillars : \A j \in DOMAIN ViewPillars[i].criteria :
        \A k \in DOMAIN ViewPillars[i].criteria[j].ranges :
            ViewPillars[i].criteria[j].ranges[k].points \in 0..10

WeightsPositive == \A i \in DOMAIN ViewPillars : ViewPillars[i].weight > 0

\* the points awarded in the run, over all pillars
AwardedInRun ==
    UNION {{AwardedPoints(i, j) :
                j \in {x \in DOMAIN wz_view.runs[i] : wz_view.runs[i][x].used # 0}} :
           i \in DOMAIN ViewPillars}

\* lo <= x <= hi for a fraction x
Within(x, lo, hi) == lo * x.d <= x.n /\ x.n <= hi * x.d

(* C20: with every points value in 0..10 and every pillar weight positive,
   every pillar score and the final score of a run lie in 0..10; and with
   positive weights the final score lies between the least and the greatest
   points awarded to a criterion in the run. *)
Thm_C20 ==
    FormShown /\ WeightsPositive =>
        /\ PointsInScale =>
            /\ \A i \in DOMAIN wz_view.pillar_metrics :
                Within(wz_view.pillar_metrics[i].score, 0, 10)
            /\ \A name \in DOMAIN wz_view.results_by_pillar :
                Within(wz_view.results_by_pillar[name].score, 0, 10)
            /\ wz_view.has_final => Within(wz_view.final_score, 0, 10)
        /\ wz_view.has_final =>
            /\ AwardedInRun # {}
            /\ \E lo, hi \in AwardedInRun :
                /\ \A p \in AwardedInRun : lo <= p /\ p <= hi
                /\ Within(wz_view.final_score, lo, hi)

\* two contributing pillars of different weights, 6 and 8 the points awarded:
\* the final score lies strictly between 6 and 8
Wit_C20 ==
    /\ FormShown
    /\ Len(ViewPillars) = 2
    /\ ViewPillars[1].weight # ViewPillars[2].weight
    /\ wz_view.has_final
    /\ AwardedInRun = {6, 8}
    /\ Cardinality(ContributingPillars) = 2
    /\ ~Within(wz_view.final_score, 8, 8)
    /\ ~Within(wz_view.final_score, 6, 6)

-----------------------------------------------------------------------------
(* classify_score called once on an arbitrary score *)

MaxOffset == 5

\* scores in thousandths around 0, the three breakpoints and 10, and the
\* non-finite floats
ClScores ==
    {Fin(1000 * b + o, 1000) : b \in {0, 4, 6, 8, 10}, o \in (0 - MaxOffset)..MaxOffset}
        \cup {PInf, NInf, NaN}

ClInit ==
    /\ cl_score \in ClScores
    /\ cl_label = ""
    /\ cl_pc = "ready"

ClCall ==
    /\ cl_pc = "ready"
    /\ cl_label' = classify_score(cl_score)
    /\ cl_pc' = "done"
    /\ UNCHANGED <<cl_score, ev_vars, wz_vars, va_vars, me_vars, ap_vars>>

-----------------------------------------------------------------------------
(* C10: classify_score returns exactly one of the four labels, with the      *)
(* lower breakpoint of each band inclusive: score >= 8 Excelente,            *)
(* 6 <= score < 8 Bom, 4 <= score < 6 Medio, score < 4 Fraco; so 8.0 is      *)
(* Excelente, 7.999 is Bom, 4.0 is Medio and 3.999 is Fraco.                 *)
Thm_C10 ==
    cl_pc = "done" =>
        /\ cl_label \in {"Excelente", "Bom", "Medio", "Fraco"}
        /\ cl_score.k = "fin" =>
            /\ (cl_score.n >= 8 * cl_score.d) <=> (cl_label = "Excelente")
            /\ (cl_score.n >= 6 * cl_score.d /\ cl_score.n < 8 * cl_score.d)
                    <=> (cl_label = "Bom")
            /\ (cl_score.n >= 4 * cl_score.d /\ cl_score.n < 6 * cl_score.d)
                    <=> (cl_label = "Medio")
            /\ (cl_score.n < 4 * cl_score.d) <=> (cl_label = "Fraco")
        /\ cl_score.k = "pinf" => cl_label = "Excelente"
        /\ cl_score.k = "ninf" => cl_label = "Fraco"
        /\ cl_score = Fin(8000, 1000) => cl_label = "Excelente"
        /\ cl_score = Fin(7999, 1000) => cl_label = "Bom"
        /\ cl_score = Fin(4000, 1000) => cl_label = "Medio"
        /\ cl_score = Fin(3999, 1000) => cl_label = "Fraco"

\* the call on 7.999 returned Bom
Wit_C10 ==
    /\ cl_pc = "done"
    /\ cl_score = Fin(7999, 1000)
    /\ cl_label = "Bom"

-----------------------------------------------------------------------------
(* Arithmetic of finite Python floats, exact (no rounding) *)

NormBy(n, d, g) ==
    IF d < 0 THEN Fin((0 - n) \div g, (0 - d) \div g) ELSE Fin(n \div g, d \div g)

\* n/d (d # 0) in lowest terms with a positive denominator
Norm(n, d) == NormBy(n, d, GCD(Abs(n), Abs(d)))

Zero == Fin(0, 1)
One == Fin(1, 1)

FNeg(a) == Fin(0 - a.n, a.d)

FAddOver(a, b, g) ==
    Norm(a.n * (b.d \div g) + b.n * (a.d \div g), (a.d \div g) * b.d)

FAdd(a, b) == FAddOver(a, b, GCD(a.d, b.d))
FSub(a, b) == FAdd(a, FNeg(b))

FMulBy(a, b, g1, g2) ==
    Norm((a.n \div g1) * (b.n \div g2), (a.d \div g2) * (b.d \div g1))

FMul(a, b) == FMulBy(a, b, GCD(Abs(a.n), b.d), GCD(Abs(b.n), a.d))

\* 1/a for a # 0
FInv(a) == IF a.n < 0 THEN Fin(0 - a.d, 0 - a.n) ELSE Fin(a.d, a.n)

\* a / b for b # 0
FDiv(a, b) == FMul(a, FInv(b))

\* a ** n for an int n >= 0
RECURSIVE FPow(_, _)
FPow(a, n) == IF n = 0 THEN One ELSE FMul(a, FPow(a, n - 1))

RECURSIVE FSum(_)
FSum(xs) == IF xs = <<>> THEN Zero ELSE FAdd(Head(xs), FSum(Tail(xs)))

\* how a call ends: it returns v or raises the exception v
Return(v) == [k |-> "return", v |-> v]
Raise(e) == [k |-> "raise", v |-> e]

\* a / b as Python evaluates it
PyDiv(a, b) == IF b.n = 0 THEN Raise("ZeroDivisionError") ELSE Return(FDiv(a, b))

-----------------------------------------------------------------------------
(* utils/valuation.py: the valuation formulas *)

\* float(response.data[0]['value']), then value / 100 if value > 1 else value;
\* the except branch returns default when float() raises
IndexDecimalInclusive(value, default) ==
    IF value.k = "ValueError" THEN default
    ELSE IF value.k # "fin" THEN value
    ELSE IF FLe(One, value) THEN FDiv(Norm(value.n, value.d), Fin(100, 1))
    ELSE Norm(value.n, value.d)

IndexDecimal(value, default) ==
    IF value.k = "ValueError" THEN default
    ELSE IF value.k # "fin" THEN value
    ELSE IF FLt(One, value) THEN FDiv(Norm(value.n, value.d), Fin(100, 1))
    ELSE Norm(value.n, value.d)

IndexFloat(x, default) ==
    IF x.k = "none" THEN default ELSE IndexDecimal(Float(x), default)

\* the values get_market_index_value can return: the select carries no order,
\* so limit(1) yields any row of that name; fails: the lookup raises
get_market_index_value(market_indices, index_name, default, fails) ==
    IF fails \/ ~(\E i \in DOMAIN market_indices : market_indices[i].name = index_name)
    THEN {default}
    ELSE {IndexFloat(market_indices[i].value, default) :
            i \in {j \in DOMAIN market_indices : market_indices[j].name = index_name}}

gordon_accepts_equal_rates(dividend, growth_rate, discount_rate) ==
    IF FLt(discount_rate, growth_rate) THEN Raise("ValueError")
    ELSE PyDiv(dividend, FSub(discount_rate, growth_rate))

gordon_growth_model(dividend, growth_rate, discount_rate) ==
    IF FLe(discount_rate, growth_rate) THEN Raise("ValueError")
    ELSE PyDiv(dividend, FSub(discount_rate, growth_rate))

\* the flows discounted at (1 + rate) ** i, i counting from 1
Discounted(flows, rate) ==
    [i \in DOMAIN flows |-> FDiv(flows[i], FPow(FAdd(One, rate), i))]

\* terminal flow over (rate - growth), brought back n periods
TerminalValue(last, growth, spread) == FDiv(FMul(last, FAdd(One, growth)), spread)

fcfe_valuation(fcfe_list, discount_rate, terminal_growth) ==
    IF fcfe_list # <<>> /\ FAdd(One, discount_rate).n = 0 THEN Raise("ZeroDivisionError")
    ELSE IF fcfe_list = <<>> THEN Raise("IndexError")
    ELSE IF FSub(discount_rate, terminal_growth).n = 0 THEN Raise("ZeroDivisionError")
    ELSE Return(FAdd(FSum(Discounted(fcfe_list, discount_rate)),
                     FDiv(TerminalValue(fcfe_list[Len(fcfe_list)], terminal_growth,
                                        FSub(discount_rate, terminal_growth)),
                          FPow(FAdd(One, discount_rate), Len(fcfe_list)))))

\* annual_dividend * ((1 + ipca) ** year) for year in range(1, years + 1)
ProjectedDividendsFromToday(annual_dividend, ipca, years) ==
    [year \in 1..years |-> FMul(annual_dividend, FPow(FAdd(One, ipca), year - 1))]

ProjectedDividends(annual_dividend, ipca, years) ==
    [year \in 1..years |-> FMul(annual_dividend, FPow(FAdd(One, ipca), year))]

IpcaPlusDict(projected_dividends, terminal_value, ipca, discount_rate, years) ==
    [fair_value |-> FAdd(FSum(Discounted(projected_dividends, discount_rate)),
                         FDiv(terminal_value, FPow(FAdd(One, discount_rate), years))),
     annual_return |-> discount_rate,
     projected_dividends |-> projected_dividends,
     terminal_value |-> terminal_value,
     ipca_used |-> ipca]

IpcaPlusTerminal(projected_dividends, ipca, discount_rate, years) ==
    IpcaPlusDict(projected_dividends,
                 TerminalValue(projected_dividends[years], ipca, FSub(discount_rate, ipca)),
                 ipca, discount_rate, years)

IpcaPlusRates(ipca, dividend, discount_rate, years) ==
    IF years >= 1 /\ FAdd(One, discount_rate).n = 0 THEN Raise("ZeroDivisionError")
    ELSE IF years < 1 THEN Raise("IndexError")
    ELSE IF FSub(discount_rate, ipca).n = 0 THEN Raise("ZeroDivisionError")
    ELSE Return(IpcaPlusTerminal(ProjectedDividends(FMul(dividend, Fin(12, 1)), ipca, years),
                                 ipca, discount_rate, years))

\* ipca_plus_valuation once the index lookup has returned ipca
ipca_plus_valuation(ipca, dividend, premium, years) ==
    IpcaPlusRates(ipca, dividend, FAdd(ipca, premium), years)

calculate_cap_rate_unguarded(noi, property_value) == PyDiv(noi, property_value)

calculate_cap_rate(noi, property_value) ==
    IF property_value.n = 0 THEN Return(Zero) ELSE PyDiv(noi, property_value)

calculate_p_vp(price, net_worth_per_share) ==
    IF net_worth_per_share.n = 0 THEN Return(Zero) ELSE PyDiv(price, net_worth_per_share)

-----------------------------------------------------------------------------
(* The calls of the valuation formulas that are followed *)

MaxRate == 2
MaxDividend == 2
MaxFlows == 2
MaxYears == 3
MaxRows == 2

\* rates in steps of one half, from -1 (where 1 + rate is zero)
Rates == {Norm(r, 2) : r \in (0 - 2)..MaxRate}

\* dividends, cash flows, prices, net worths
Amounts == {Fin(d, 1) : d \in (0 - 1)..MaxDividend}

NumEntry(f) == [k |-> "num", s |-> <<>>, f |-> f]

\* the `value` column of market_indices: numbers (4.5, 1, 0.5, 50, 0, -3),
\* text that is a number, text that is none, NULL
StoredValues ==
    {NumEntry(Fin(9, 2)), NumEntry(One), NumEntry(Fin(1, 2)), NumEntry(Fin(50, 1)),
     NumEntry(Zero), NumEntry(Fin(0 - 3, 1)),
     FStr(<<"4", ".", "5">>), FStr(<<"x">>), FNone}

IndexNames == {"IPCA", "CDI"}

MarketTables ==
    UNION {[1..n -> [name : IndexNames, value : StoredValues]] : n \in 0..MaxRows}

\* ipca_plus_valuation's default for a missing IPCA
DefaultIpca == Fin(9, 200)

\* the market_indices tables ipca_plus_valuation is followed on
IpcaTables ==
    UNION {[1..n -> [name : {"IPCA"},
                     value : {NumEntry(Fin(50, 1)), NumEntry(Fin(1, 2)), NumEntry(Zero),
                              NumEntry(Fin(0 - 1, 1)), FStr(<<"x">>)}]] : n \in 0..MaxRows}

GordonArgs == [dividend : Amounts, growth_rate : Rates, discount_rate : Rates]

FcfeArgs ==
    [fcfe_list : UNION {[1..n -> Amounts] : n \in 0..MaxFlows},
     discount_rate : Rates, terminal_growth : Rates]

\* with the default IPCA of 0.045 the projection is followed for one year at
\* most: the exact fractions of 1.045 ** year outgrow the integers
IpcaArgs ==
    {a \in [market_indices : IpcaTables, fails : BOOLEAN, dividend : Amounts,
            premium : Rates, years : 0..MaxYears] :
        DefaultIpca \in get_market_index_value(a.market_indices, "IPCA", DefaultIpca, a.fails)
            => a.years <= 1}

RatioArgs == [num : Amounts, den : Amounts]

IndexArgs ==
    [market_indices : MarketTables, index_name : IndexNames,
     default : {Zero, Fin(3, 50)}, fails : BOOLEAN]

NoResult == [k |-> "none", v |-> 0]

VaInit ==
    /\ va_pc = "ready"
    /\ va_result = NoResult
    /\ \/ va_fn = "gordon_growth_model" /\ va_args \in GordonArgs
       \/ va_fn = "fcfe_valuation" /\ va_args \in FcfeArgs
       \/ va_fn = "ipca_plus_valuation" /\ va_args \in IpcaArgs
       \/ va_fn = "calculate_cap_rate" /\ va_args \in RatioArgs
       \/ va_fn = "calculate_p_vp" /\ va_args \in RatioArgs
       \/ va_fn = "get_market_index_value" /\ va_args \in IndexArgs

\* the call ends with res
VaEnd(res) ==
    /\ va_pc = "ready"
    /\ va_result' = res
    /\ va_pc' = "done"
    /\ UNCHANGED <<va_fn, va_args, ev_vars, wz_vars, cl_vars, me_vars, ap_vars>>

GordonCall ==
    /\ va_fn = "gordon_growth_model"
    /\ VaEnd(gordon_growth_model(va_args.dividend, va_args.growth_rate,
                                 va_args.discount_rate))

FcfeCall ==
    /\ va_fn = "fcfe_valuation"
    /\ VaEnd(fcfe_valuation(va_args.fcfe_list, va_args.discount_rate,
                            va_args.terminal_growth))

IpcaPlusCall ==
    /\ va_fn = "ipca_plus_valuation"
    /\ \E ipca \in get_market_index_value(va_args.market_indices, "IPCA", DefaultIpca,
                                          va_args.fails) :
        VaEnd(ipca_plus_valuation(ipca, va_args.dividend, va_args.premium, va_args.years))

CapRateCall ==
    /\ va_fn = "calculate_cap_rate"
    /\ VaEnd(calculate_cap_rate(va_args.num, va_args.den))

PVpCall ==
    /\ va_fn = "calculate_p_vp"
    /\ VaEnd(calculate_p_vp(va_args.num, va_args.den))

MarketIndexCall ==
    /\ va_fn = "get_market_index_value"
    /\ \E value \in get_market_index_value(va_args.market_indices, va_args.index_name,
                                           va_args.default, va_args.fails) :
        VaEnd(Return(value))

VaNext ==
    \/ GordonCall
    \/ FcfeCall
    \/ IpcaPlusCall
    \/ CapRateCall
    \/ PVpCall
    \/ MarketIndexCall

-----------------------------------------------------------------------------
(* Vocabulary of the valuation properties: identities between fractions,
   stated on integers, without the division of the model *)

VaDone(fn) == va_pc = "done" /\ va_fn = fn
Returned == va_result.k = "return"
Raises(e) == va_result = Raise(e)

\* x = a * b
IsProduct(x, a, b) == x.n * a.d * b.d = a.n * b.n * x.d

\* x = a + b
IsSum(x, a, b) == x.n * a.d * b.d = (a.n * b.d + b.n * a.d) * x.d

\* 1 + r
OnePlus(r) == Fin(r.d + r.n, r.d)

Sign(x) == IF x.n > 0 THEN 1 ELSE IF x.n < 0 THEN 0 - 1 ELSE 0

\* xs[1] * x^(y-1) + ... + xs[y-1] * x + xs[y]
RECURSIVE Horner(_, _, _)
Horner(xs, x, y) ==
    IF y = 0 THEN Zero ELSE FAdd(FMul(Horner(xs, x, y - 1), x), xs[y])

(* C11: gordon_growth_model raises ValueError whenever discount_rate <=
   growth_rate, equality included; otherwise it returns the value v with
   v * (discount_rate - growth_rate) = dividend; it never raises a division
   by zero, and what it returns has the sign of the dividend. *)
Thm_C11 ==
    VaDone("gordon_growth_model") =>
        /\ FLe(va_args.discount_rate, va_args.growth_rate) => Raises("ValueError")
        /\ ~FLe(va_args.discount_rate, va_args.growth_rate) =>
            /\ Returned
            /\ IsProduct(va_args.dividend, va_result.v,
                         FSub(va_args.discount_rate, va_args.growth_rate))
            /\ Sign(va_result.v) = Sign(va_args.dividend)
        /\ ~Raises("ZeroDivisionError")

\* the rates are equal and the call raised ValueError
Wit_C11 ==
    /\ VaDone("gordon_growth_model")
    /\ va_args.discount_rate = va_args.growth_rate
    /\ va_args.dividend.n > 0
    /\ Raises("ValueError")

\* the growth rate a call's discount rate is compared with is at least the
\* discount rate (for IPCA+: discount = ipca + premium against ipca)
RateNotAboveGrowth ==
    \/ VaDone("gordon_growth_model") /\ FLe(va_args.discount_rate, va_args.growth_rate)
    \/ VaDone("fcfe_valuation") /\ FLe(va_args.discount_rate, va_args.terminal_growth)
    \/ VaDone("ipca_plus_valuation") /\ FLe(va_args.premium, Zero)

(* C12: in the Gordon, FCFE and IPCA+ models a discount rate less than or
   equal to the growth rate ends the call with an error, never with a
   returned fair value. *)
Cex_C12 == RateNotAboveGrowth => va_result.k = "raise"

\* fcfe_valuation returned a value for a discount rate below terminal growth
Wit_C12 ==
    /\ VaDone("fcfe_valuation")
    /\ FLt(va_args.discount_rate, va_args.terminal_growth)
    /\ Returned

(* C13: when ipca_plus_valuation returns, years >= 1 and projected_dividends
   has exactly years elements, the first 12 * dividend * (1 + ipca), each
   later one the previous one times (1 + ipca); annual_return is ipca +
   premium; and fair_value is the sum of projected_dividends[y] / D^y for
   y = 1..years plus projected_dividends[years] * (1 + ipca) / premium / D^years,
   D = 1 + ipca + premium (stated multiplied through by premium * D^years).
   For years >= 1 it returns unless premium = 0 or D = 0. *)
Thm_C13 ==
    VaDone("ipca_plus_valuation") =>
        /\ Returned =>
            /\ va_args.years >= 1
            /\ Len(va_result.v.projected_dividends) = va_args.years
            /\ IsProduct(va_result.v.projected_dividends[1],
                         FMul(Fin(12, 1), va_args.dividend), OnePlus(va_result.v.ipca_used))
            /\ \A y \in 2..va_args.years :
                IsProduct(va_result.v.projected_dividends[y],
                          va_result.v.projected_dividends[y - 1],
                          OnePlus(va_result.v.ipca_used))
            /\ IsSum(va_result.v.annual_return, va_result.v.ipca_used, va_args.premium)
            /\ FMul(FMul(va_result.v.fair_value, va_args.premium),
                    FPow(OnePlus(va_result.v.annual_return), va_args.years))
                 = FAdd(FMul(va_args.premium,
                             Horner(va_result.v.projected_dividends,
                                    OnePlus(va_result.v.annual_return), va_args.years)),
                        FMul(va_result.v.projected_dividends[va_args.years],
                             OnePlus(va_result.v.ipca_used)))
        /\ ~Returned =>
            \/ va_args.years < 1
            \/ va_args.premium = Zero
            \/ \E ipca \in get_market_index_value(va_args.market_indices, "IPCA",
                                                  DefaultIpca, va_args.fails) :
                    FAdd(OnePlus(ipca), va_args.premium) = Zero

\* a projection over three years returned, with a positive dividend and
\* premium and a positive stored IPCA
Wit_C13 ==
    /\ VaDone("ipca_plus_valuation")
    /\ Returned
    /\ va_args.years = 3
    /\ va_args.dividend.n > 0
    /\ va_args.premium.n > 0
    /\ va_result.v.ipca_used = Fin(1, 2)
    /\ va_result.v.fair_value.n > 0

(* C14: calculate_cap_rate and calculate_p_vp return 0 when the denominator
   is 0 and numerator / denominator otherwise; neither ever raises. *)
Thm_C14 ==
    VaDone("calculate_cap_rate") \/ VaDone("calculate_p_vp") =>
        /\ Returned
        /\ va_args.den = Zero => va_result.v = Zero
        /\ va_args.den # Zero => IsProduct(va_args.num, va_result.v, va_args.den)

\* the cap rate of a non-zero income over a zero property value came out 0
Wit_C14 ==
    /\ VaDone("calculate_cap_rate")
    /\ va_args.den = Zero
    /\ va_args.num # Zero
    /\ va_result = Return(Zero)

\* the stored value x is a number, or text float() reads as a finite number
StoredNumber(x) == x.k = "num" \/ (x.k = "str" /\ Float(x).k = "fin")

\* the rows of the table that carry the name asked for
NamedRows == {i \in DOMAIN va_args.market_indices :
                va_args.market_indices[i].name = va_args.index_name}

\* v is the decimal fraction of the stored number f
DecimalOf(v, f) ==
    IF FLt(One, f) THEN IsProduct(f, v, Fin(100, 1)) ELSE IsProduct(f, v, One)

(* C15: get_market_index_value never raises; it returns the default when the
   lookup raises or no row has the name; otherwise it returns, for a row of
   that name, the stored value divided by 100 if it is greater than 1 and
   unchanged if it is at most 1 (exactly 1 included), or the default if the
   stored value is no number. *)
Thm_C15 ==
    VaDone("get_market_index_value") =>
        /\ Returned
        /\ va_args.fails \/ NamedRows = {} => va_result.v = va_args.default
        /\ ~va_args.fails /\ NamedRows # {} =>
            \E i \in NamedRows :
                IF StoredNumber(va_args.market_indices[i].value)
                THEN DecimalOf(va_result.v, Float(va_args.market_indices[i].value))
                ELSE va_result.v = va_args.default

\* the only row of the name stores 4.5 and 0.045 was returned
Wit_C15 ==
    /\ VaDone("get_market_index_value")
    /\ ~va_args.fails
    /\ \A i \in NamedRows : va_args.market_indices[i].value = NumEntry(Fin(9, 2))
    /\ NamedRows # {}
    /\ va_result = Return(Fin(9, 200))

-----------------------------------------------------------------------------
(* utils/db.py: the methodology_config table and the sessions writing to it *)

MaxMethodologies == 3
MaxAdmins == 2

\* the id the deactivating update excludes: '00000000-0000-0000-0000-000000000000'
NilId == 0

Admins == 1..MaxAdmins

\* a session that is not inside set_active_methodology
Outside == [pc |-> "idle", id |-> NilId, alone |-> TRUE, since |-> {}]

\* a session between the two writes of set_active_methodology(id):
\*   alone  no other session has written an activation or deactivation since
\*          this session's first write
\*   since  the ids other sessions have activated since then, with no
\*          deactivation after
Between(id) == [pc |-> "between", id |-> id, alone |-> TRUE, since |-> {}]

InsertedActive(table) == [id |-> Len(table) + 1, is_active |-> TRUE]

\* insert({'version': version, 'is_active': False}): the store draws the id
\* and stamps created_at; rows are kept in creation order
InsertedRow(table) == [id |-> Len(table) + 1, is_active |-> FALSE]

create_methodology(table) == Append(table, InsertedRow(table))

\* update({'is_active': False}).neq('id', nil id)
DeactivateAll(table) ==
    [i \in DOMAIN table |->
        IF table[i].id # NilId THEN [table[i] EXCEPT !.is_active = FALSE] ELSE table[i]]

ActivateAndDeactivateRest(table, methodology_id) ==
    [i \in DOMAIN table |-> [table[i] EXCEPT !.is_active = (table[i].id = methodology_id)]]

\* update({'is_active': True}).eq('id', methodology_id)
ActivateOne(table, methodology_id) ==
    [i \in DOMAIN table |->
        IF table[i].id = methodology_id THEN [table[i] EXCEPT !.is_active = TRUE]
        ELSE table[i]]

\* select('*').order('created_at', desc=True).limit(1): res.data, of which
\* the function returns the first row, or None when there is none
get_active_methodology(table) ==
    IF table = <<>> THEN Return(<<>>) ELSE Return(<<table[Len(table)]>>)

\* what the write of session a leaves in the other sessions' bookkeeping
Noted(a, op, id) ==
    [b \in Admins |->
        IF b = a \/ me_admin[b].pc = "idle" THEN me_admin[b]
        ELSE [me_admin[b] EXCEPT !.alone = FALSE,
                                 !.since = IF op = "deactivate" THEN {}
                                           ELSE @ \cup {methodology_config[i].id :
                                                          i \in {j \in DOMAIN methodology_config :
                                                                  methodology_config[j].id = id}}]]

LastOp(op, a, id, ok, was) ==
    [k |-> op, admin |-> a, id |-> id, ok |-> ok, alone |-> was.alone, since |-> was.since]

MeInit ==
    /\ methodology_config = <<>>
    /\ me_admin = [a \in Admins |-> Outside]
    /\ me_active = NoResult
    /\ me_last = NoResult

MeFrame == UNCHANGED <<ev_vars, wz_vars, cl_vars, va_vars, ap_vars>>

\* an admin creates a methodology
MeCreate ==
    /\ Len(methodology_config) < MaxMethodologies
    /\ methodology_config' = create_methodology(methodology_config)
    /\ me_last' = LastOp("create_methodology", NilId, Len(methodology_config) + 1, TRUE,
                         Outside)
    /\ UNCHANGED <<me_admin, me_active>>
    /\ MeFrame

\* set_active_methodology(id), first write: every row is deactivated, or the
\* write raises and the function returns False
MeDeactivateAll ==
    \E a \in Admins, id \in 1..MaxMethodologies, ok \in BOOLEAN :
        /\ me_admin[a].pc = "idle"
        /\ IF ok
           THEN /\ methodology_config' = DeactivateAll(methodology_config)
                /\ me_admin' = [Noted(a, "deactivate", id) EXCEPT ![a] = Between(id)]
           ELSE UNCHANGED <<methodology_config, me_admin>>
        /\ me_last' = LastOp("deactivate", a, id, ok, Outside)
        /\ UNCHANGED me_active
        /\ MeFrame

\* set_active_methodology(id), second write: the row of that id is activated
\* and the function returns True, or the write raises and it returns False
MeActivateOne ==
    \E a \in Admins, ok \in BOOLEAN :
        /\ me_admin[a].pc = "between"
        /\ IF ok
           THEN /\ methodology_config' = ActivateOne(methodology_config, me_admin[a].id)
                /\ me_admin' = [Noted(a, "activate", me_admin[a].id) EXCEPT ![a] = Outside]
           ELSE /\ me_admin' = [me_admin EXCEPT ![a] = Outside]
                /\ UNCHANGED methodology_config
        /\ me_last' = LastOp("set_active_methodology", a, me_admin[a].id, ok, me_admin[a])
        /\ UNCHANGED me_active
        /\ MeFrame

\* the wizard asks for the methodology to score against
MeGetActive ==
    /\ me_active' = get_active_methodology(methodology_config)
    /\ me_last' = LastOp("get_active_methodology", NilId, NilId, TRUE, Outside)
    /\ UNCHANGED <<methodology_config, me_admin>>
    /\ MeFrame

MeNext ==
    \/ MeCreate
    \/ MeDeactivateAll
    \/ MeActivateOne
    \/ MeGetActive

-----------------------------------------------------------------------------
(* Vocabulary of the methodology store's properties *)

\* the ids of the methodologies marked active
ActiveIds ==
    {methodology_config[i].id :
        i \in {j \in DOMAIN methodology_config : methodology_config[j].is_active}}

StoredIds == {methodology_config[i].id : i \in DOMAIN methodology_config}

\* the operation that acted last is a set_active_methodology that ended
Activated(ok) == me_last.k = "set_active_methodology" /\ me_last.ok = ok

(* C16: when set_active_methodology(id) has run to completion for a stored
   id, both writes succeeding and no other session's activation or
   deactivation in between, exactly the methodology of that id is active,
   whatever was active before; a methodology just created is inactive. *)
Thm_C16 ==
    /\ Activated(TRUE) /\ me_last.alone /\ me_last.id \in StoredIds =>
        ActiveIds = {me_last.id}
    /\ me_last.k = "create_methodology" =>
        /\ methodology_config[Len(methodology_config)].id = me_last.id
        /\ me_last.id \notin ActiveIds

\* an uninterrupted activation of the first of three methodologies has ended
Wit_C16 ==
    /\ Activated(TRUE)
    /\ me_last.alone
    /\ me_last.id = 1
    /\ Len(methodology_config) = MaxMethodologies
    /\ ActiveIds = {1}

(* C17: set_active_methodology is two separate writes. Between them, with no
   other session writing, no methodology is active, and none is active at
   the end if the second write fails; and when the second write succeeds
   the active methodologies are the activated one together with those other
   sessions activated since the first write, so two interleaved activations
   of different methodologies end with more than one active. *)
Thm_C17 ==
    /\ \A a \in Admins :
        me_admin[a].pc = "between" /\ me_admin[a].alone => ActiveIds = {}
    /\ Activated(FALSE) /\ me_last.alone => ActiveIds = {}
    /\ Activated(TRUE) /\ me_last.id \in StoredIds =>
        ActiveIds = me_last.since \cup {me_last.id}

\* two sessions have both finished activating different methodologies and
\* both methodologies are active
Wit_C17 ==
    /\ Activated(TRUE)
    /\ me_last.since \ {me_last.id} # {}
    /\ \A a \in Admins : me_admin[a].pc = "idle"
    /\ Cardinality(ActiveIds) > 1

(* C18: get_active_methodology returns the methodology that is marked
   active at that moment. *)
Cex_C18 ==
    me_last.k = "get_active_methodology" /\ Cardinality(ActiveIds) = 1 =>
        /\ me_active.v # <<>>
        /\ me_active.v[1].id \in ActiveIds

\* the first methodology is the active one and the read returned the second
Wit_C18 ==
    /\ me_last.k = "get_active_methodology"
    /\ ActiveIds = {1}
    /\ me_active = Return(<<[id |-> 2, is_active |-> FALSE]>>)

-----------------------------------------------------------------------------
(* Properties of the wizard: overlapping ranges, the override flag, the save *)

\* criterion j of pillar i in the tree of the last run, and its pass of the loop
ViewCriterion(i, j) == ViewPillars[i].criteria[j]
ViewRun(i, j) == wz_view.runs[i][j]

\* the ranges of criterion j of pillar i that cover the value entered
CoveringRanges(i, j) ==
    {k \in DOMAIN ViewCriterion(i, j).ranges :
        Covers(ViewRun(i, j).value.f, ViewCriterion(i, j).ranges[k])}

\* the greatest points among the ranges at the positions ks of the criterion
MaxPoints(i, j, ks) ==
    CHOOSE p \in {ViewCriterion(i, j).ranges[k].points : k \in ks} :
        \A k \in ks : ViewCriterion(i, j).ranges[k].points <= p

(* C24: the range list of every criterion reaches the evaluator ordered by   *)
(* points descending, whatever the order of the stored rows; a numeric       *)
(* criterion without manual override whose value is covered by some range is *)
(* awarded, when it is awarded points, the greatest points among the ranges  *)
(* covering the value, and it is awarded points when all ranges are readable.*)
Thm_C24 ==
    FormShown =>
        \A i \in DOMAIN ViewPillars : \A j \in DOMAIN ViewPillars[i].criteria :
            /\ \A k, l \in DOMAIN ViewCriterion(i, j).ranges :
                k < l => ViewCriterion(i, j).ranges[k].points
                            >= ViewCriterion(i, j).ranges[l].points
            /\ (/\ ViewCriterion(i, j).type \in {"numeric", "percent"}
                /\ ~ViewRun(i, j).manual
                /\ CoveringRanges(i, j) # {}) =>
                    /\ ViewRun(i, j).matched =>
                        ViewRun(i, j).points =
                            MaxPoints(i, j, CoveringRanges(i, j))
                    /\ (\A k \in DOMAIN ViewCriterion(i, j).ranges :
                            WellFormed(ViewCriterion(i, j).ranges[k]))
                        => ViewRun(i, j).matched /\ ViewRun(i, j).used # 0

\* the bands (-inf, 5] with 6 points and [5, inf) with 8 points, stored with
\* the 6 points first; the value 5 lies in both and is awarded 8 points
Wit_C24 ==
    /\ FormShown
    /\ \E i \in DOMAIN ViewPillars : \E j \in DOMAIN ViewPillars[i].criteria :
        /\ ViewCriterion(i, j).type = "numeric"
        /\ Len(wz_db.pillars[i].criteria[j].ranges) = 2
        /\ wz_db.pillars[i].criteria[j].ranges[1].points = 6
        /\ wz_db.pillars[i].criteria[j].ranges[2].points = 8
        /\ ViewRun(i, j).value = VNum(Fin(5, 1))
        /\ CoveringRanges(i, j) = {1, 2}
        /\ ~ViewRun(i, j).manual
        /\ ViewRun(i, j).points = 8

\* the range the evaluator returns for the value of criterion j of pillar i
\* (0 for None)
AutoRange(i, j) ==
    EvaluatedRange(ViewCriterion(i, j), ViewRun(i, j).value)

\* the range the manual select box of the criterion stands for
ManualRange(i, j) ==
    RangeOption(ViewCriterion(i, j).ranges, w_manual[ViewCriterion(i, j).id])

\* what the override flags mean for the criteria of the form shown
OverrideInForce ==
    FormShown /\ wz_view.save_result # "saved" =>
        \A i \in DOMAIN ViewPillars : \A j \in DOMAIN ViewPillars[i].criteria :
            ViewCriterion(i, j).id \in analysis_overrides =>
                IF AutoRange(i, j) # 0
                THEN /\ ViewCriterion(i, j).id \in DOMAIN w_manual
                     /\ ViewRun(i, j).used = ManualRange(i, j)
                     /\ ViewRun(i, j).points =
                            ViewCriterion(i, j).ranges[ManualRange(i, j)].points
                ELSE /\ ViewRun(i, j).used = 0
                     /\ ViewCriterion(i, j).id \notin DOMAIN w_manual

\* a flag is set only in a run in which the criterion matched a range
OverrideSetWhenMatched ==
    \A id \in analysis_overrides' \ analysis_overrides :
        \E r \in AllRuns(wz_view'.runs) : r.id = id /\ r.matched

\* a flag is dropped only by the run that saved an analysis
OverrideKeptUntilSaved ==
    analysis_overrides \ analysis_overrides' # {} =>
        /\ wz_view'.save_result = "saved"
        /\ Len(analysis_data') = Len(analysis_data) + 1

(* C25: the override flag of a criterion is set only in a run in which the   *)
(* criterion's value matched a range; it stays set over every rerun until a  *)
(* run saves an analysis; while it is set and the value matches, the points  *)
(* of the criterion are those of the range picked in the manual select box;  *)
(* while it is set and the value matches no range, the criterion is unscored.*)
Thm_C25 ==
    /\ []OverrideInForce
    /\ [][OverrideSetWhenMatched /\ OverrideKeptUntilSaved]_vars

\* the value 5 matches the 8-point band, the flag is set and the 6-point band
\* is picked in the select box: 6 points
Wit_C25 ==
    /\ FormShown
    /\ \E i \in DOMAIN ViewPillars : \E j \in DOMAIN ViewPillars[i].criteria :
        /\ ViewCriterion(i, j).id \in analysis_overrides
        /\ AutoRange(i, j) # 0
        /\ ViewCriterion(i, j).ranges[AutoRange(i, j)].points = 8
        /\ ManualRange(i, j) # AutoRange(i, j)
        /\ ViewRun(i, j).points = 6

\* the run of this step pressed Save and create_analysis returned a record / None
SavedNow == wz_view'.stage = "form" /\ wz_view'.save_result = "saved"
SaveFailedNow == wz_view'.stage = "form" /\ wz_view'.save_result = "failed"

(* C26: a run that presses Save empties analysis_inputs and                  *)
(* analysis_overrides and adds one record exactly when create_analysis       *)
(* returns a record; when it returns None both keep their contents, the      *)
(* widgets keep the user's entries and no record is added; no other run      *)
(* removes an entry of analysis_inputs or analysis_overrides.                *)
Thm_C26 ==
    [][/\ SavedNow =>
            /\ analysis_inputs' = EmptyDict
            /\ analysis_overrides' = {}
            /\ Len(analysis_data') = Len(analysis_data) + 1
            /\ analysis_data'[Len(analysis_data')].inputs = analysis_inputs
       /\ SaveFailedNow =>
            /\ analysis_inputs' = analysis_inputs
            /\ analysis_inputs # EmptyDict
            /\ analysis_overrides' = analysis_overrides
            /\ w_input' = w_input
            /\ analysis_data' = analysis_data
       /\ ~SavedNow =>
            /\ DOMAIN analysis_inputs \subseteq DOMAIN analysis_inputs'
            /\ analysis_overrides \subseteq analysis_overrides'
            /\ analysis_data' = analysis_data]_vars

\* a save failed and left an override flag and the inputs in place
Wit_C26 ==
    /\ FormShown
    /\ wz_view.save_result = "failed"
    /\ analysis_overrides # {}
    /\ analysis_inputs # EmptyDict
    /\ analysis_data = <<>>

\* the sums of weighted_score and of weight over the entries of a by_pillar
\* dict under the names ns
RECURSIVE WeightedScoreSum(_, _)
WeightedScoreSum(by_pillar, ns) ==
    IF ns = {} THEN Rat(0, 1)
    ELSE LET name == CHOOSE x \in ns : TRUE
         IN  RAdd(by_pillar[name].weighted_score,
                  WeightedScoreSum(by_pillar, ns \ {name}))

RECURSIVE EntryWeightSum(_, _)
EntryWeightSum(by_pillar, ns) ==
    IF ns = {} THEN 0
    ELSE LET name == CHOOSE x \in ns : TRUE
         IN  by_pillar[name].weight + EntryWeightSum(by_pillar, ns \ {name})

\* the run shown saved an analysis: the record is the last of the table
SavedRecord == analysis_data[Len(analysis_data)]
SaveShown == FormShown /\ wz_view.save_result = "saved"

(* C29: the by_pillar breakdown of a saved analysis has one entry for every  *)
(* pillar that contributed to the score, and the sum of the entries'         *)
(* weighted_score divided by the sum of their weights is the final_score     *)
(* saved with it, also when two pillars of the tree bear the same name.      *)
Cex_C29 ==
    SaveShown =>
        /\ Cardinality(DOMAIN SavedRecord.results.by_pillar)
                = Cardinality(ContributingPillars)
        /\ REq(RDiv(WeightedScoreSum(SavedRecord.results.by_pillar,
                                     DOMAIN SavedRecord.results.by_pillar),
                    EntryWeightSum(SavedRecord.results.by_pillar,
                                   DOMAIN SavedRecord.results.by_pillar)),
               SavedRecord.results.final_score)

\* two contributing pillars of the same name, weights 1 and 2, scores 6 and 8:
\* the record holds the final score 22/3 and the single entry of the second
\* pillar, whose weighted score over its weight is 8
Wit_C29 ==
    /\ SaveShown
    /\ Len(ViewPillars) = 2
    /\ ViewPillars[1].name = ViewPillars[2].name
    /\ ContributingPillars = {1, 2}
    /\ Cardinality(DOMAIN SavedRecord.results.by_pillar) = 1
    /\ SavedRecord.results.final_score = Rat(22, 3)
    /\ SavedRecord.results.by_pillar[ViewPillars[2].name].weighted_score = Rat(16, 1)
    /\ SavedRecord.results.by_pillar[ViewPillars[2].name].weight = 2

-----------------------------------------------------------------------------
(* utils/auth.py, app.py: authentication and the session *)

\* None, and an object held where None could be
None == <<>>
Obj(x) == <<x>>

\* del d[k]
Del(d, k) == [x \in DOMAIN d \ {k} |-> d[x]]

\* the user of an auth response and the response itself
UserOf(email, user_metadata) == [email |-> email, user_metadata |-> user_metadata]
AuthResponse(user) == [user |-> user]

\* login: the response of sign_in_with_password, None when it raises
login(reply) == IF reply.raises THEN None ELSE Obj(reply.response)

\* logout: sign_out, then every key of the session state is deleted; when
\* sign_out raises, the deletion is skipped
logout(ss, sign_out_ok) == IF sign_out_ok THEN EmptyDict ELSE ss

is_admin_ignoring_case(user_data) ==
    IF user_data = None \/ user_data[1].user = None THEN FALSE
    ELSE IF user_data[1].user[1].user_metadata = None THEN FALSE
    ELSE Get(user_data[1].user[1].user_metadata[1], "role", "") \in {"admin", "Admin"}

\* is_admin: False without user data or user, False when reading the role
\* raises (user_metadata is None), else role == 'admin'
is_admin(user_data) ==
    IF user_data = None \/ user_data[1].user = None THEN FALSE
    ELSE IF user_data[1].user[1].user_metadata = None THEN FALSE
    ELSE Get(user_data[1].user[1].user_metadata[1], "role", "") = "admin"

check_authentication(ss) == "user" \in DOMAIN ss /\ ss["user"] # None

\* require_admin: st.stop() for a session without user or without is_admin
require_admin(ss) ==
    IF ~check_authentication(ss) THEN "stop_unauthenticated"
    ELSE IF ~Get(ss, "is_admin", FALSE) THEN "stop_denied"
    ELSE "proceed"

\* the options of the navigation radio (labels without their emoji)
UserPages == <<"Nova Analise", "Minhas Analises", "Valuation">>
AdminPages == UserPages \o <<"Admin: Metodologias", "Admin: Indices">>

\* what a script leaves: the session state and what it rendered
\*   screen   "login", "main" (sidebar and page), "page" (a page run by itself),
\*            "error" (the run raised)
\*   content  what the page area shows
\*   confirm  the confirmation box of the index page is shown
\*   rows     the ids of the index rows shown, each with its two buttons
Rendered(ss, script, screen, page, content, confirm, rows) ==
    [ss |-> ss, script |-> script, screen |-> screen, page |-> page,
     content |-> content, confirm |-> confirm, rows |-> rows]

\* get_market_indices: the rows, [] when the query raises (order('name')
\* only orders the rows on the page)
get_market_indices(table, fetch_ok) == IF fetch_ok THEN table ELSE <<>>

\* pages/admin_indices.py: show_admin_indices
show_admin_indices(ss, script, screen, page, indices) ==
    Rendered(Put(ss, "supabase", TRUE), script, screen, page, "indices",
             Get(ss, "pending_delete", None) # None,
             {indices[i].id : i \in DOMAIN indices})

\* pages/admin_methodology.py: main, up to the tabs
admin_methodology_main(ss, script, screen, page) ==
    Rendered(ss, script, screen, page,
             IF require_admin(ss) = "proceed" THEN "methodology" ELSE require_admin(ss),
             FALSE, {})

\* pages/analysis_wizard.py: main, up to the tabs
analysis_wizard_main(ss, script, screen, page) ==
    Rendered(ss, script, screen, page,
             IF check_authentication(ss) THEN "wizard" ELSE "stop_unauthenticated",
             FALSE, {})

\* the page chosen in the radio: the one held when it is among the options,
\* else the first option
RadioPage(options, page) ==
    IF \E i \in DOMAIN options : options[i] = page THEN page ELSE options[1]

\* app.py: the page area of show_main_app
PageContent(ss, page, indices) ==
    IF page = "Admin: Metodologias" THEN admin_methodology_main(ss, "app", "main", page)
    ELSE IF page = "Admin: Indices" THEN show_admin_indices(ss, "app", "main", page, indices)
    ELSE analysis_wizard_main(ss, "app", "main", page)

\* app.py: show_main_app without a press of the logout button; reading the
\* e-mail of a response without user raises
show_main_app(ss, page, indices) ==
    IF ss["user"][1].user = None
    THEN Rendered(ss, "app", "error", "", "", FALSE, {})
    ELSE PageContent(ss, RadioPage(IF ss["is_admin"] THEN AdminPages ELSE UserPages, page),
                     indices)

\* app.py: main after the two defaults are set
MainDispatch(ss, page, indices) ==
    IF ss["user"] = None
    THEN Rendered(ss, "app", "login", "", "login", FALSE, {})
    ELSE show_main_app(ss, page, indices)

\* the two 'not in st.session_state' defaults of main
SessionDefaults(ss) ==
    [k \in DOMAIN ss \cup {"user", "is_admin"} |->
        IF k \in DOMAIN ss THEN ss[k] ELSE IF k = "user" THEN None ELSE FALSE]

main(ss, page, indices) == MainDispatch(SessionDefaults(ss), page, indices)

\* one run of the script the browser is at
Script_of(script, ss, page, indices) ==
    IF script = "app" THEN main(ss, page, indices)
    ELSE IF script = "admin_methodology"
    THEN admin_methodology_main(ss, script, "page", "")
    ELSE show_admin_indices(ss, script, "page", "", indices)

\* after the run the state of a widget that was not rendered is dropped
DropUnrendered(out) ==
    IF out.confirm THEN out
    ELSE [out EXCEPT !.ss = Del(out.ss, "delete_confirmation_input")]

RunScript(script, ss, page, indices) ==
    DropUnrendered(Script_of(script, ss, page, indices))

-----------------------------------------------------------------------------
(* pages/admin_indices.py: the callbacks *)

\* what a callback leaves: the session state, the table, and whether
\* delete_market_index was called
Effect(ss, table, delete_called) ==
    [ss |-> ss, table |-> table, delete_called |-> delete_called]

IndexRow(id, name, value) == [id |-> id, name |-> name, value |-> value]

\* the rows of table other than those of the id
Without(table, index_id) == SelectSeq(table, LAMBDA r : r.id # index_id)

\* delete_market_index(supabase, index_id): the row is deleted and the call
\* is truthy, or nothing is deleted and it is falsy
delete_market_index(table, index_id, delete_ok) ==
    IF delete_ok THEN Without(table, index_id) ELSE table

\* delete_index_callback: only marks the index for confirmation
delete_index_callback(ss, table, index_id, index_name) ==
    Effect(Put(ss, "pending_delete",
               Obj([index_id |-> index_id, index_name |-> index_name])),
           table, FALSE)

\* the two assignments that end a confirmation
ConfirmationCleared(ss) ==
    Put(Put(ss, "pending_delete", None), "delete_confirmation_input", "")

ConfirmedDelete(ss, table, pending, delete_ok) ==
    Effect(IF delete_ok THEN ConfirmationCleared(ss) ELSE ss,
           delete_market_index(table, pending[1].index_id, delete_ok), TRUE)

confirm_delete_callback_any_text(ss, table, delete_ok) ==
    IF Get(ss, "pending_delete", None) # None
    THEN ConfirmedDelete(ss, table, Get(ss, "pending_delete", None), delete_ok)
    ELSE Effect(ss, table, FALSE)

\* confirm_delete_callback: deletes when an index is pending and the text is
\* exactly 'DELETAR'; otherwise it only warns
confirm_delete_callback(ss, table, delete_ok) ==
    IF Get(ss, "pending_delete", None) # None
            /\ Get(ss, "delete_confirmation_input", "") = "DELETAR"
    THEN ConfirmedDelete(ss, table, Get(ss, "pending_delete", None), delete_ok)
    ELSE Effect(ss, table, FALSE)

\* cancel_delete_callback
cancel_delete_callback(ss, table) == Effect(ConfirmationCleared(ss), table, FALSE)

\* save_new_index_callback with the name and value the two inputs hold: the
\* row is inserted unless the name is empty or the insert raises
save_new_index_callback(ss, table, seq, new_name, new_val, insert_ok) ==
    Effect(ss,
           IF new_name # "" /\ insert_ok
           THEN Append(table, IndexRow(seq + 1, new_name, new_val)) ELSE table,
           FALSE)

\* update_index_callback with the name and value the row's inputs hold
update_index_callback(ss, table, index_id, edited_name, edited_val, update_ok) ==
    Effect(ss,
           IF update_ok
           THEN [i \in DOMAIN table |->
                    IF table[i].id = index_id
                    THEN IndexRow(index_id, edited_name, edited_val) ELSE table[i]]
           ELSE table,
           FALSE)

-----------------------------------------------------------------------------
(* The session of one browser: every action is an event followed by the run  *)
(* of the script the browser is at                                           *)

MaxIndices == 2

\* the responses sign_in_with_password returns: a user whose role is 'admin',
\* 'user' or 'Admin', a user without role, a user whose metadata is None,
\* and a response without user
Roles == {"admin", "user", "Admin"}

AuthUsers ==
    {UserOf("a", Obj([role |-> r])) : r \in Roles}
        \cup {UserOf("a", Obj(EmptyDict)), UserOf("a", None)}

AuthResponses == {AuthResponse(Obj(u)) : u \in AuthUsers} \cup {AuthResponse(None)}

\* what sign_in_with_password does: it raises or answers
SignInReplies ==
    {[raises |-> TRUE, response |-> AuthResponse(None)]}
        \cup {[raises |-> FALSE, response |-> r] : r \in AuthResponses}

\* the texts of the e-mail and password inputs
LoginTexts == {"", "a"}

\* the texts typed into the confirmation input
ConfirmationTexts == {"", "DELETAR", "deletar"}

\* the names and values typed into the inputs of the index page
NewIndexNames == {""} \cup IndexNames
IndexValues == {5}

Scripts == {"app", "admin_methodology", "admin_indices"}

\* what a run rendered
ViewOf(out) ==
    [script |-> out.script, screen |-> out.screen, page |-> out.page,
     content |-> out.content, confirm |-> out.confirm, rows |-> out.rows]

NoView == ViewOf(Rendered(EmptyDict, "", "closed", "", "", FALSE, {}))

\* the event that acted: op names it; admin and user are the session's
\* is_admin and whether it held a user when the event was handled; ok is the
\* outcome of the remote call of the event; delete_called whether
\* delete_market_index was called
Event(op, ss, ok, delete_called) ==
    [op |-> op,
     admin |-> Get(ss, "is_admin", FALSE),
     user |-> check_authentication(ss),
     ok |-> ok,
     delete_called |-> delete_called]

NoEvent == [op |-> "", admin |-> FALSE, user |-> FALSE, ok |-> FALSE,
            delete_called |-> FALSE]

ApInit ==
    /\ session_state = EmptyDict
    /\ market_index_rows = <<>>
    /\ ix_seq = 0
    /\ ap_view = NoView
    /\ ap_last = NoEvent

ApFrame == UNCHANGED <<ev_vars, wz_vars, cl_vars, va_vars, me_admin, me_active, me_last>>

\* the run after an event: the script runs on the session state ss with the
\* table as the event left it
ApRun(script, ss, page) ==
    \E fetch_ok \in BOOLEAN :
        \E out \in {RunScript(script, ss, page,
                              get_market_indices(market_index_rows', fetch_ok))} :
            /\ session_state' = out.ss
            /\ ap_view' = ViewOf(out)

\* a callback of the index page ran, then the script
ApCallback(op, eff, ok) ==
    /\ market_index_rows' = eff.table
    /\ ap_last' = Event(op, session_state, ok, eff.delete_called)
    /\ ApRun(ap_view.script, eff.ss, ap_view.page)
    /\ UNCHANGED methodology_config
    /\ ApFrame

\* the browser opens the app or one of the pages of the pages directory
ApOpen ==
    \E script \in Scripts :
        /\ ap_view.script # script
        /\ ap_last' = Event("open", session_state, TRUE, FALSE)
        /\ UNCHANGED <<market_index_rows, ix_seq, methodology_config>>
        /\ ApRun(script, session_state, "")
        /\ ApFrame

\* what the submitted login form leaves in the session state
LoginSubmitted(ss, email, password, user_data) ==
    IF email # "" /\ password # "" /\ user_data # None
    THEN Put(Put(ss, "user", user_data), "is_admin", is_admin(user_data))
    ELSE ss

\* the login form is submitted
ApLogin ==
    /\ ap_view.screen = "login"
    /\ \E email \in LoginTexts, password \in LoginTexts, reply \in SignInReplies :
        /\ ap_last' = Event("login", session_state,
                            email # "" /\ password # "" /\ login(reply) # None, FALSE)
        /\ UNCHANGED <<market_index_rows, ix_seq, methodology_config>>
        /\ ApRun("app", LoginSubmitted(session_state, email, password, login(reply)), "")
        /\ ApFrame

\* the logout button of the main app is pressed
ApLogout ==
    /\ ap_view.script = "app" /\ ap_view.screen = "main"
    /\ \E sign_out_ok \in BOOLEAN :
        /\ ap_last' = Event("logout", session_state, sign_out_ok, FALSE)
        /\ UNCHANGED <<market_index_rows, ix_seq, methodology_config>>
        /\ ApRun("app", logout(session_state, sign_out_ok), ap_view.page)
        /\ ApFrame

\* another page is picked in the navigation radio
ApSelectPage ==
    /\ ap_view.script = "app" /\ ap_view.screen = "main"
    /\ \E i \in DOMAIN AdminPages :
        /\ session_state["is_admin"] \/ i \in DOMAIN UserPages
        /\ AdminPages[i] # ap_view.page
        /\ ap_last' = Event("select_page", session_state, TRUE, FALSE)
        /\ UNCHANGED <<market_index_rows, ix_seq, methodology_config>>
        /\ ApRun("app", session_state, AdminPages[i])
        /\ ApFrame

\* 'Criar Metodologia' is pressed with a version typed in: the run passes
\* require_admin again, inserts, and reruns when the insert returned a row
ApCreateMethodology ==
    /\ ap_view.content = "methodology"
    /\ Len(methodology_config) < MaxMethodologies
    /\ \E insert_ok \in BOOLEAN :
        /\ methodology_config' =
                IF require_admin(session_state) = "proceed" /\ insert_ok
                THEN create_methodology(methodology_config)
                ELSE methodology_config
        /\ ap_last' = Event("create_methodology", session_state, insert_ok, FALSE)
        /\ UNCHANGED <<market_index_rows, ix_seq>>
        /\ ApRun(ap_view.script, session_state, ap_view.page)
        /\ ApFrame

\* 'Adicionar' is pressed
ApAddIndex ==
    /\ ap_view.content = "indices"
    /\ ix_seq < MaxIndices
    /\ \E new_name \in NewIndexNames, new_val \in IndexValues, insert_ok \in BOOLEAN :
        /\ ix_seq' = IF new_name # "" /\ insert_ok THEN ix_seq + 1 ELSE ix_seq
        /\ ApCallback("save_new_index_callback",
                      save_new_index_callback(session_state, market_index_rows, ix_seq,
                                              new_name, new_val, insert_ok),
                      new_name # "" /\ insert_ok)

\* the save button of a row is pressed
ApUpdateIndex ==
    /\ ap_view.content = "indices"
    /\ \E id \in ap_view.rows, edited_name \in IndexNames, edited_val \in IndexValues,
          update_ok \in BOOLEAN :
        /\ UNCHANGED ix_seq
        /\ ApCallback("update_index_callback",
                      update_index_callback(session_state, market_index_rows, id,
                                            edited_name, edited_val, update_ok),
                      update_ok)

\* the name of the row of an id
RowName(table, id) == (CHOOSE r \in Elements(table) : r.id = id).name

\* the delete button of a row is pressed
ApClickDelete ==
    /\ ap_view.content = "indices"
    /\ \E id \in ap_view.rows :
        /\ UNCHANGED ix_seq
        /\ ApCallback("delete_index_callback",
                      delete_index_callback(session_state, market_index_rows, id,
                                            RowName(market_index_rows, id)),
                      TRUE)

\* a text is typed into the confirmation input
ApTypeConfirmation ==
    /\ ap_view.content = "indices" /\ ap_view.confirm
    /\ \E text \in ConfirmationTexts :
        /\ text # Get(session_state, "delete_confirmation_input", "")
        /\ UNCHANGED ix_seq
        /\ ApCallback("type_confirmation",
                      Effect(Put(session_state, "delete_confirmation_input", text),
                             market_index_rows, FALSE),
                      TRUE)

\* 'Confirmar' is pressed
ApConfirmDelete ==
    /\ ap_view.content = "indices" /\ ap_view.confirm
    /\ \E delete_ok \in BOOLEAN :
        /\ UNCHANGED ix_seq
        /\ ApCallback("confirm_delete_callback",
                      confirm_delete_callback(session_state, market_index_rows, delete_ok),
                      delete_ok)

\* 'Cancelar' is pressed
ApCancelDelete ==
    /\ ap_view.content = "indices" /\ ap_view.confirm
    /\ UNCHANGED ix_seq
    /\ ApCallback("cancel_delete_callback",
                  cancel_delete_callback(session_state, market_index_rows), TRUE)

ApNext ==
    \/ ApOpen
    \/ ApLogin
    \/ ApLogout
    \/ ApSelectPage
    \/ ApCreateMethodology
    \/ ApAddIndex
    \/ ApUpdateIndex
    \/ ApClickDelete
    \/ ApTypeConfirmation
    \/ ApConfirmDelete
    \/ ApCancelDelete

-----------------------------------------------------------------------------
(* Properties of the session and of the admin pages *)

\* the ids of the rows of a table
RowIds(table) == {table[i].id : i \in DOMAIN table}

\* pending_delete and the confirmation text of a session state
Pending(ss) == Get(ss, "pending_delete", None)
ConfirmationText(ss) == Get(ss, "delete_confirmation_input", "")

\* the step was the callback op
Ran(op) == ap_last'.op = op

(* C21: an index leaves the table only in a step of confirm_delete_callback  *)
(* taken with pending_delete set and the confirmation text exactly           *)
(* 'DELETAR', and it is the pending index; delete_market_index is called in  *)
(* no other step; delete_index_callback only records pending_delete;         *)
(* cancel_delete_callback clears pending_delete and the text and deletes     *)
(* nothing; a successful deletion clears pending_delete, a failed one and a  *)
(* wrong text leave it as it was.                                            *)
Thm_C21 ==
    [][/\ (RowIds(market_index_rows) \ RowIds(market_index_rows') # {}
                \/ ap_last'.delete_called) =>
            /\ Ran("confirm_delete_callback")
            /\ Pending(session_state) # None
            /\ ConfirmationText(session_state) = "DELETAR"
            /\ RowIds(market_index_rows) \ RowIds(market_index_rows')
                    \subseteq {Pending(session_state)[1].index_id}
       /\ Ran("delete_index_callback") =>
            /\ market_index_rows' = market_index_rows
            /\ Pending(session_state') # None
            /\ Pending(session_state')[1].index_id \in RowIds(market_index_rows)
       /\ Ran("cancel_delete_callback") =>
            /\ market_index_rows' = market_index_rows
            /\ Pending(session_state') = None
            /\ ConfirmationText(session_state') = ""
       /\ Ran("confirm_delete_callback") =>
            IF ap_last'.delete_called /\ ap_last'.ok
            THEN /\ Pending(session_state') = None
                 /\ RowIds(market_index_rows) \ RowIds(market_index_rows')
                        = {Pending(session_state)[1].index_id}
            ELSE /\ Pending(session_state') = Pending(session_state)
                 /\ Pending(session_state') # None
                 /\ market_index_rows' = market_index_rows]_vars

\* an index was marked, 'DELETAR' typed and the deletion confirmed: the row
\* is gone and nothing is pending
Wit_C21 ==
    /\ ap_last.op = "confirm_delete_callback"
    /\ ap_last.delete_called /\ ap_last.ok
    /\ ix_seq = 1 /\ market_index_rows = <<>>
    /\ Pending(session_state) = None

\* the callbacks of the index page that write to the store
IndexWrites ==
    {"save_new_index_callback", "update_index_callback", "confirm_delete_callback"}

(* C22: the methodology admin page gets past require_admin, and creates a    *)
(* methodology, only in a session that holds a user and has is_admin True;   *)
(* the create, update and delete callbacks of the index page run only in     *)
(* sessions with is_admin True.                                              *)
Cex_C22 ==
    /\ ap_view.content = "methodology" =>
            check_authentication(session_state) /\ session_state["is_admin"]
    /\ ap_last.op = "create_methodology" => ap_last.user /\ ap_last.admin
    /\ ap_last.op \in IndexWrites => ap_last.admin

\* a session that never logged in has added an index
Wit_C22 ==
    /\ ap_last.op = "save_new_index_callback"
    /\ ap_last.ok
    /\ ~ap_last.user /\ ~ap_last.admin
    /\ ~check_authentication(session_state)
    /\ Len(market_index_rows) = 1

(* C27: after the logout button of the main app was pressed and the run      *)
(* ended, the session holds no user, check_authentication is False and the   *)
(* login page is shown, whether sign_out succeeded or raised.                *)
Cex_C27 ==
    ap_last.op = "logout" =>
        /\ Get(session_state, "user", None) = None
        /\ ~check_authentication(session_state)
        /\ ap_view.screen = "login"

\* sign_out raised: the user is still in the session and the main app is shown
Wit_C27 ==
    /\ ap_last.op = "logout"
    /\ ~ap_last.ok
    /\ check_authentication(session_state)
    /\ ap_view.screen = "main"

\* the role in the metadata of the user the session holds, "" when there is
\* no user, no metadata or no role
SessionRole ==
    IF ~check_authentication(session_state) THEN ""
    ELSE IF session_state["user"][1].user = None THEN ""
    ELSE IF session_state["user"][1].user[1].user_metadata = None THEN ""
    ELSE Get(session_state["user"][1].user[1].user_metadata[1], "role", "")

(* C28: in every state of a session is_admin is True only if the session     *)
(* holds a user whose metadata role is 'admin'; a login that fails changes   *)
(* neither user nor is_admin.                                                *)
Thm_C28 ==
    /\ [](Get(session_state, "is_admin", FALSE) =>
            check_authentication(session_state) /\ SessionRole = "admin")
    /\ [][Ran("login") /\ ~ap_last'.ok =>
            /\ Get(session_state', "user", None) = Get(session_state, "user", None)
            /\ Get(session_state', "is_admin", FALSE)
                    = Get(session_state, "is_admin", FALSE)
            /\ ap_view'.screen = "login"]_vars

\* an administrator is logged in
Wit_C28 ==
    /\ ap_last.op = "login" /\ ap_last.ok
    /\ session_state["is_admin"]
    /\ SessionRole = "admin"
    /\ ap_view.screen = "main"

-----------------------------------------------------------------------------
(* The specifications: each runs one part, the other parts stay idle *)

EvIdle ==
    ev_value = VNone /\ ev_ranges = <<>> /\ ev_result = NotCalled /\ ev_pc = "idle"

WzIdle ==
    /\ wz_db = [present |-> FALSE, pillars |-> <<>>]
    /\ ticker_widget = <<>>
    /\ w_input = EmptyDict
    /\ w_manual = EmptyDict
    /\ analysis_inputs = EmptyDict
    /\ analysis_overrides = {}
    /\ wz_view = Closed
    /\ analysis_data = <<>>

ClIdle == cl_score = NaN /\ cl_label = "" /\ cl_pc = "idle"

VaIdle ==
    va_fn = "" /\ va_args = EmptyDict /\ va_result = NoResult /\ va_pc = "idle"

MeIdle ==
    methodology_config = <<>> /\ me_admin = <<>> /\ me_active = NoResult /\ me_last = NoResult

ApIdle ==
    /\ session_state = EmptyDict /\ market_index_rows = <<>> /\ ix_seq = 0
    /\ ap_view = NoView /\ ap_last = NoEvent

EvalInit == EvInit /\ WzIdle /\ ClIdle /\ VaIdle /\ MeIdle /\ ApIdle
SpecEval == EvalInit /\ [][EvCall]_vars

WizardInit == WzInit /\ EvIdle /\ ClIdle /\ VaIdle /\ MeIdle /\ ApIdle
SpecWizard == WizardInit /\ [][WzNext]_vars

ClassifyInit == ClInit /\ EvIdle /\ WzIdle /\ VaIdle /\ MeIdle /\ ApIdle
SpecClassify == ClassifyInit /\ [][ClCall]_vars

ValuationInit == VaInit /\ EvIdle /\ WzIdle /\ ClIdle /\ MeIdle /\ ApIdle
SpecValuation == ValuationInit /\ [][VaNext]_vars

StoreInit == MeInit /\ EvIdle /\ WzIdle /\ ClIdle /\ VaIdle /\ ApIdle
SpecStore == StoreInit /\ [][MeNext]_vars

AppInit == ApInit /\ EvIdle /\ WzIdle /\ ClIdle /\ VaIdle /\ MeIdle
SpecApp == AppInit /\ [][ApNext]_vars

====
